---- MODULE Spec2Model ----
(***************************************************************************)
(* Session fleet manager of selenium_agent: the SessionPool and its        *)
(* GridSession objects (grid/session-pool.ts, utils/chrome-options.ts) and *)
(* the ExplorationCoordinator and the parallel_execute tool built on top   *)
(* of them.  Of a result, the                                              *)
(* model carries what the pool and the coordinator decide on: ids, status, *)
(* error and pages; titles, forms, workflows and timestamps are left out.  *)
(*                                                                         *)
(* Every "await" of the TypeScript source is a step boundary: the code     *)
(* between two awaits runs atomically on the single-threaded event loop.   *)
(***************************************************************************)
EXTENDS Integers, Sequences, FiniteSets, TLC

(***************************************************************************)
(* Bounds of the model.                                                    *)
(***************************************************************************)
\* callers that invoke the pool concurrently; each awaits its own call
NumCallers == 2
\* invocations of the pool's API in one behaviour
MaxCalls == 2
\* invocations when a single caller makes its calls one after another
MaxSeqCalls == 4

Callers == 1..NumCallers

ExplicitIds == {"s1", "grid-1"}
TagChoices == {{}, {"a", "b"}}
\* the tags argument of destroyAll: <<>> is "absent", <<T>> is the array T
TagArgs == {<<>>, <<{}>>, <<{"a", "c"}>>, <<{"nonexistent"}>>}

VARIABLES
  sessions,        \* SessionPool.sessions : Map<string, GridSession>
  sessionCounter,  \* module-level counter of session-pool.ts
  gsessions,       \* the GridSession objects ever constructed, by reference
  drivers,         \* the remote browsers ever started, by handle
  calls,           \* per caller: its invocation of the pool's API in flight,
                   \* or the outcome of its last one
  ncalls,          \* number of invocations so far
  issued,          \* the ids createSession generated itself, in order
  explorationCounter,  \* module-level counter of the coordinator
  results,         \* ExplorationCoordinator.results : Map<string, ExplorationResult>
  tasks,           \* the per-target async closures of the explore call in flight
  returned,        \* <<>> while explore is awaited, <<array>> once it returned
  lastCall,        \* the last synchronous call of the coordinator: what it
                   \* was given and what it returned or threw
  parallel,        \* the execute call of the parallel_execute tool: its
                   \* arguments, its local variables and its position
  activeSessionId  \* Context.activeSessionId: <<>> for null, <<id>> for id

exploreVars == <<explorationCounter, results, tasks, returned, lastCall>>

vars == <<sessions, sessionCounter, gsessions, drivers, calls, ncalls, issued,
          explorationCounter, results, tasks, returned, lastCall, parallel,
          activeSessionId>>

(***************************************************************************)
(* Map<string, T> helpers.                                                 *)
(***************************************************************************)
MapHas(m, k) == k \in DOMAIN m

MapSet(m, k, v) == [x \in DOMAIN m \cup {k} |-> IF x = k THEN v ELSE m[x]]

MapDelete(m, k) == [x \in DOMAIN m \ {k} |-> m[x]]

EmptyMap == [x \in {} |-> 0]

(***************************************************************************)
(* GridSession: the object, its driver and its cached snapshot.            *)
(* snapshot is <<>> for null and <<s>> for a captured snapshot s.          *)
(***************************************************************************)
GridSession(id, d, tgs) ==
  [sessionId |-> id, driver |-> d, tags |-> tgs, snapshot |-> <<>>]

\* page: the document the browser shows
NewDriver == [state |-> "live", quitCalled |-> FALSE, page |-> "blank"]

\* driver.quit() is sent: the request is on its way
QuitSent(ds, d) == [ds EXCEPT ![d].quitCalled = TRUE]

\* driver.quit() settled: resolved (the browser is gone) or rejected (the
\* browser was gone already, or it could not be reached and lives on)
QuitSettled(ds, d, ok, gone) ==
  [ds EXCEPT ![d].state = IF ok \/ gone THEN "closed" ELSE @]

\* (variant: the quit error propagated)
CloseReturns_rethrows(ok) == ok

\* GridSession.close(), the try/catch around the awaited quit: whether the
\* quit resolved (ok) or was rejected, close() returns normally
CloseReturns(ok) == TRUE

\* GridSession.close(), after the try/catch: the snapshot is dropped
CloseFinish(gs, s) == [gs EXCEPT ![s].snapshot = <<>>]

\* the PageSnapshot captureSnapshot assigns: { url, title, elements, timestamp }
SnapshotOf(url, elements) == <<[url |-> url, elements |-> elements]>>

\* (variant: every() for some())
TagsMatch_every(targ, tgs) ==
  \/ Len(targ) = 0
  \/ targ[1] \subseteq tgs

\* !tags || tags.length === 0 || tags.some(t => session.tags.includes(t))
TagsMatch(targ, tgs) ==
  \/ Len(targ) = 0
  \/ targ[1] = {}
  \/ targ[1] \cap tgs # {}

(***************************************************************************)
(* The documents a browser can show, by name, with the ids of their        *)
(* visible interactive elements in document order.                         *)
(***************************************************************************)
MaxElements == 100

Pages == {"blank", "login", "home"}

PageElements(page) ==
  CASE page = "login" -> <<"username", "search">>
    [] page = "home" -> <<"search", "logout">>
    [] OTHER -> <<>>

RefOf(n) == "e" \o ToString(n)

\* discoverElements: the refs e1, e2, ... of the first MaxElements elements
DiscoverElements(page) ==
  LET els == PageElements(page)
      n == IF Len(els) < MaxElements THEN Len(els) ELSE MaxElements
  IN [r \in {RefOf(k) : k \in 1..n} |->
        els[CHOOSE k \in 1..n : RefOf(k) = r]]

\* (variant: the remembered descriptor is not checked against the page)
FindElement_stale(page, info) == <<[page |-> page, el |-> info]>>

\* the locator script of findElementByInfo on the live page: the handle of
\* the element a strategy matches, <<>> for null
FindElement(page, info) ==
  IF \E k \in DOMAIN PageElements(page) : PageElements(page)[k] = info
  THEN <<[page |-> page, el |-> info]>>
  ELSE <<>>

(***************************************************************************)
(* createSession: id generation and uniqueness check.                      *)
(***************************************************************************)
AutoId(n) == "grid-" \o ToString(n)

\* (variant: the counter derived from the pool's size)
NextCounter_poolSize(counter, m) == Cardinality(DOMAIN m) + 1

\* ++sessionCounter: the pool m is not consulted
NextCounter(counter, m) == counter + 1

\* (variant: no check at all)
IsDuplicate_unchecked(m, inflight, id) == FALSE

\* (variant: the id is reserved while its creation is awaited)
IsDuplicate_reserved(m, inflight, id) == MapHas(m, id) \/ id \in inflight

\* this.sessions.has(id), evaluated before the awaited build: only the map
\* m is consulted, not the ids of the calls still awaiting their build
IsDuplicate(m, inflight, id) == MapHas(m, id)

(***************************************************************************)
(* Call records.                                                           *)
(***************************************************************************)
\* ref, url, captured, info and element belong to the calls on a session:
\* the ref asked for, the URL read by the capture in progress, whether the
\* call captured a snapshot itself, the descriptor looked up, the handle found
IdleCall ==
  [no |-> 0, kind |-> "none", id |-> "", targ |-> <<>>, pc |-> "idle", err |-> "",
   driver |-> 0, session |-> 0, ret |-> FALSE, count |-> 0,
   toDestroy |-> EmptyMap, settled |-> {},
   ref |-> "", url |-> "", captured |-> FALSE, info |-> <<>>, element |-> <<>>]

InFlight(c) ==
  c.pc \in {"building", "stealth", "closing", "capUrl", "capElements", "finding"}

\* ids of the createSession calls that passed the check and await creation
InFlightIds == {calls[k].id : k \in {j \in Callers :
                   calls[j].kind = "create" /\ InFlight(calls[j])}}

NoCall == [op |-> "none", args |-> <<>>, threw |-> <<>>, value |-> <<>>]

\* no execute call of the parallel_execute tool was made
NoExecute == [pc |-> "idle"]

Init ==
  /\ sessions = EmptyMap
  /\ sessionCounter = 0
  /\ gsessions = <<>>
  /\ drivers = <<>>
  /\ calls = [c \in Callers |-> IdleCall]
  /\ ncalls = 0
  /\ issued = <<>>
  /\ explorationCounter = 0
  /\ results = EmptyMap
  /\ tasks = <<>>
  /\ returned = <<>>
  /\ lastCall = NoCall
  /\ parallel = NoExecute
  /\ activeSessionId = <<>>

\* caller c may invoke the pool: it awaits no call and the budget allows it.
\* Callers are interchangeable, so an invocation is attributed to the first
\* caller that awaits nothing.
MayCall(c, limit) ==
  /\ ~InFlight(calls[c])
  /\ ncalls < limit
  /\ \A d \in Callers : d < c => InFlight(calls[d])

(***************************************************************************)
(* SessionPool.createSession                                               *)
(***************************************************************************)
\* the synchronous head: id, uniqueness check, builder.build() started.
\* The arguments tags and config.stealth are first read after the awaited
\* build, so they are drawn there.
CreateSessionStart(c, limit, explicit) ==
  /\ MayCall(c, limit)
  /\ LET auto == Len(explicit) = 0
         n == IF auto THEN NextCounter(sessionCounter, sessions) ELSE sessionCounter
         id == IF auto THEN AutoId(n) ELSE explicit[1]
         call == [IdleCall EXCEPT !.no = ncalls + 1, !.kind = "create", !.id = id]
     IN /\ sessionCounter' = n
        /\ issued' = IF auto THEN Append(issued, [n |-> n, id |-> id]) ELSE issued
        /\ calls' = [calls EXCEPT ![c] =
               IF IsDuplicate(sessions, InFlightIds, id)
               THEN [call EXCEPT !.pc = "threw", !.err = "duplicate"]
               ELSE [call EXCEPT !.pc = "building"]]
  /\ ncalls' = ncalls + 1
  /\ UNCHANGED <<sessions, gsessions, drivers>>
  /\ UNCHANGED <<exploreVars, parallel, activeSessionId>>

\* new GridSession(id, driver, browserName, tags); this.sessions.set(id, session)
Register(c, d, tgs) ==
  LET s == Len(gsessions) + 1
  IN /\ gsessions' = Append(gsessions, GridSession(calls[c].id, d, tgs))
     /\ sessions' = MapSet(sessions, calls[c].id, s)
     /\ calls' = [calls EXCEPT ![c].pc = "returned", ![c].session = s,
                               ![c].driver = d]

\* await builder.build() resolved
BuildOk(c, stealth, tgs) ==
  /\ calls[c].kind = "create" /\ calls[c].pc = "building"
  /\ drivers' = Append(drivers, NewDriver)
  /\ IF stealth
     THEN /\ calls' = [calls EXCEPT ![c].pc = "stealth",
                                    ![c].driver = Len(drivers) + 1]
          /\ UNCHANGED <<sessions, gsessions>>
     ELSE Register(c, Len(drivers) + 1, tgs)
  /\ UNCHANGED <<sessionCounter, ncalls, issued>>
  /\ UNCHANGED <<exploreVars, parallel, activeSessionId>>

\* await builder.build() rejected
BuildFail(c) ==
  /\ calls[c].kind = "create" /\ calls[c].pc = "building"
  /\ calls' = [calls EXCEPT ![c].pc = "threw", ![c].err = "creation"]
  /\ UNCHANGED <<sessions, sessionCounter, gsessions, drivers, ncalls, issued>>
  /\ UNCHANGED <<exploreVars, parallel, activeSessionId>>

\* await applyStealthScripts(driver, gridUrl) resolved
StealthOk(c, tgs) ==
  /\ calls[c].kind = "create" /\ calls[c].pc = "stealth"
  /\ Register(c, calls[c].driver, tgs)
  /\ UNCHANGED <<sessionCounter, drivers, ncalls, issued>>
  /\ UNCHANGED <<exploreVars, parallel, activeSessionId>>

\* await applyStealthScripts(driver, gridUrl) rejected
StealthFail(c) ==
  /\ calls[c].kind = "create" /\ calls[c].pc = "stealth"
  /\ calls' = [calls EXCEPT ![c].pc = "threw", ![c].err = "creation"]
  /\ UNCHANGED <<sessions, sessionCounter, gsessions, drivers, ncalls, issued>>
  /\ UNCHANGED <<exploreVars, parallel, activeSessionId>>

(***************************************************************************)
(* SessionPool.destroySession                                              *)
(***************************************************************************)
\* the lookup, and session.close() up to its awaited driver.quit()
DestroySessionStart(c, limit, id) ==
  /\ MayCall(c, limit)
  /\ LET call == [IdleCall EXCEPT !.no = ncalls + 1, !.kind = "destroy", !.id = id]
     IN IF ~MapHas(sessions, id)
        THEN /\ calls' = [calls EXCEPT ![c] =
                             [call EXCEPT !.pc = "returned", !.ret = FALSE]]
             /\ UNCHANGED drivers
        ELSE /\ calls' = [calls EXCEPT ![c] =
                             [call EXCEPT !.pc = "closing", !.session = sessions[id]]]
             /\ drivers' = QuitSent(drivers, gsessions[sessions[id]].driver)
  /\ ncalls' = ncalls + 1
  /\ UNCHANGED <<sessions, sessionCounter, gsessions, issued>>
  /\ UNCHANGED <<exploreVars, parallel, activeSessionId>>

\* (variant: the entry kept)
DestroyRemoves_kept(m, id, closed) == m

\* the pool entry after the awaited close: this.sessions.delete(sessionId),
\* whether the quit resolved (closed) or not
DestroyRemoves(m, id, closed) == MapDelete(m, id)

\* the awaited quit settled: close() finishes, the entry is deleted
DestroySessionSettle(c, ok, gone) ==
  /\ calls[c].kind = "destroy" /\ calls[c].pc = "closing"
  /\ LET s == calls[c].session
     IN /\ drivers' = QuitSettled(drivers, gsessions[s].driver, ok, gone)
        /\ gsessions' = CloseFinish(gsessions, s)
        /\ IF CloseReturns(ok)
           THEN /\ sessions' = DestroyRemoves(sessions, calls[c].id, ok)
                /\ calls' = [calls EXCEPT ![c].pc = "returned", ![c].ret = TRUE]
           ELSE /\ sessions' = sessions
                /\ calls' = [calls EXCEPT ![c].pc = "threw", ![c].err = "close"]
  /\ UNCHANGED <<sessionCounter, ncalls, issued>>
  /\ UNCHANGED <<exploreVars, parallel>>

\* destroySession called on the pool directly
DestroySessionFinish(c, ok, gone) ==
  DestroySessionSettle(c, ok, gone) /\ UNCHANGED activeSessionId

(***************************************************************************)
(* SessionPool.destroyAll                                                  *)
(***************************************************************************)
\* the entries selected by the loop over this.sessions
ToDestroy(m, gs, targ) ==
  LET ids == {id \in DOMAIN m : TagsMatch(targ, gs[m[id]].tags)}
  IN [id \in ids |-> m[id]]

RECURSIVE QuitSentAll(_, _)
QuitSentAll(ds, dset) ==
  IF dset = {} THEN ds
  ELSE LET d == CHOOSE x \in dset : TRUE
       IN QuitSentAll(QuitSent(ds, d), dset \ {d})

\* the selection, and every closure run up to its awaited driver.quit();
\* Promise.allSettled of no closures settles at once
DestroyAllBegin(c, limit, targ) ==
  /\ MayCall(c, limit)
  /\ LET td == ToDestroy(sessions, gsessions, targ)
         call == [IdleCall EXCEPT !.no = ncalls + 1, !.kind = "destroyAll", !.targ = targ,
                                  !.toDestroy = td]
     IN /\ calls' = [calls EXCEPT ![c] =
               IF DOMAIN td = {}
               THEN [call EXCEPT !.pc = "returned"]
               ELSE [call EXCEPT !.pc = "closing"]]
        /\ drivers' = QuitSentAll(drivers, {gsessions[td[id]].driver : id \in DOMAIN td})
  /\ ncalls' = ncalls + 1
  /\ UNCHANGED <<sessions, sessionCounter, gsessions, issued>>
  /\ UNCHANGED <<exploreVars, parallel>>

\* destroyAll called on the pool directly
DestroyAllStart(c, limit, targ) ==
  DestroyAllBegin(c, limit, targ) /\ UNCHANGED activeSessionId

\* (variant: the entry kept)
DestroyAllRemoves_kept(m, id) == m

\* the closure's this.sessions.delete(id)
DestroyAllRemoves(m, id) == MapDelete(m, id)

\* one closure's awaited quit settled: close() finishes, the entry is
\* deleted and the closure is fulfilled; after the last closure the call
\* returns the number of fulfilled closures
DestroyAllSettle(c, id, ok, gone) ==
  /\ calls[c].kind = "destroyAll" /\ calls[c].pc = "closing"
  /\ id \in DOMAIN calls[c].toDestroy \ calls[c].settled
  /\ LET s == calls[c].toDestroy[id]
         last == calls[c].settled \cup {id} = DOMAIN calls[c].toDestroy
     IN /\ drivers' = QuitSettled(drivers, gsessions[s].driver, ok, gone)
        /\ gsessions' = CloseFinish(gsessions, s)
        /\ sessions' = IF CloseReturns(ok) THEN DestroyAllRemoves(sessions, id) ELSE sessions
        /\ calls' = [calls EXCEPT
               ![c].settled = @ \cup {id},
               ![c].count = IF CloseReturns(ok) THEN @ + 1 ELSE @,
               ![c].pc = IF last THEN "returned" ELSE @]
  /\ UNCHANGED <<sessionCounter, ncalls, issued>>
  /\ UNCHANGED <<exploreVars, parallel, activeSessionId>>

(***************************************************************************)
(* GridSession.captureSnapshot on a session of the pool, when nothing      *)
(* interleaves with its remote calls                                       *)
(***************************************************************************)
CaptureSnapshot(id) ==
  /\ MapHas(sessions, id)
  /\ drivers[gsessions[sessions[id]].driver].state = "live"
  /\ LET page == drivers[gsessions[sessions[id]].driver].page
     IN gsessions' = [gsessions EXCEPT ![sessions[id]].snapshot =
                         SnapshotOf(page, DiscoverElements(page))]
  /\ UNCHANGED <<sessions, sessionCounter, drivers, calls, ncalls, issued>>
  /\ UNCHANGED <<exploreVars, parallel, activeSessionId>>

(***************************************************************************)
(* The pool under concurrent callers, and under one caller.                *)
(***************************************************************************)
CreateArgs == {<<>>} \cup {<<x>> : x \in ExplicitIds}

PoolNext(cs, limit) ==
  \/ \E c \in cs, e \in CreateArgs : CreateSessionStart(c, limit, e)
  \/ \E c \in cs, st \in BOOLEAN, t \in TagChoices : BuildOk(c, st, t)
  \/ \E c \in cs : BuildFail(c)
  \/ \E c \in cs, t \in TagChoices : StealthOk(c, t)
  \/ \E c \in cs : StealthFail(c)
  \/ \E c \in cs, id \in ExplicitIds \cup DOMAIN sessions : DestroySessionStart(c, limit, id)
  \/ \E c \in cs, ok \in BOOLEAN, gone \in BOOLEAN : DestroySessionFinish(c, ok, gone)
  \/ \E c \in cs, targ \in TagArgs : DestroyAllStart(c, limit, targ)
  \/ \E c \in cs, id \in DOMAIN sessions \cup ExplicitIds, ok \in BOOLEAN, gone \in BOOLEAN :
        DestroyAllSettle(c, id, ok, gone)
  \/ \E id \in DOMAIN sessions : CaptureSnapshot(id)

Next == PoolNext(Callers, MaxCalls)

Spec == Init /\ [][Next]_vars

NextSeq == PoolNext({1}, MaxSeqCalls)

SpecSeq == Init /\ [][NextSeq]_vars

(***************************************************************************)
(* SessionPool.getSession and listSessions: synchronous reads of the map.  *)
(* A session is returned by reference; <<>> is undefined.                  *)
(***************************************************************************)
getSession(sessionId) ==
  IF MapHas(sessions, sessionId) THEN <<sessions[sessionId]>> ELSE <<>>

listSessions(targ) ==
  {sessions[id] : id \in {i \in DOMAIN sessions :
                            TagsMatch(targ, gsessions[sessions[i]].tags)}}

(***************************************************************************)
(* GridSession.captureSnapshot and getElementByRef as calls of a caller    *)
(* that holds the session, one step per awaited remote call (ok: the       *)
(* remote call resolved).                                                  *)
(***************************************************************************)
RefNotFound == "Element ref not found"
CouldNotFind == "Could not find element"
RemoteError == "WebDriverError"

\* the document changes under the session: whoever holds getDriver()
\* navigates, or the page navigates by itself
NavigateTo(id, page) ==
  /\ MapHas(sessions, id)
  /\ LET d == gsessions[sessions[id]].driver
     IN /\ drivers[d].state = "live" /\ drivers[d].page # page
        /\ drivers' = [drivers EXCEPT ![d].page = page]
  /\ UNCHANGED <<sessions, sessionCounter, gsessions, calls, ncalls, issued>>
  /\ UNCHANGED <<exploreVars, parallel, activeSessionId>>

\* if (!this.snapshot)
NeedsCapture(snapshot) == snapshot = <<>>

\* this.snapshot!.elements.get(ref) and what follows it, up to the awaited
\* executeScript of findElementByInfo
Lookup(call, snapshot) ==
  IF call.ref \in DOMAIN snapshot[1].elements
  THEN [call EXCEPT !.pc = "finding", !.info = <<snapshot[1].elements[call.ref]>>]
  ELSE [call EXCEPT !.pc = "threw", !.err = RefNotFound]

CaptureSnapshotStart(c, limit, id) ==
  /\ MayCall(c, limit)
  /\ MapHas(sessions, id)
  /\ calls' = [calls EXCEPT ![c] =
        [IdleCall EXCEPT !.no = ncalls + 1, !.kind = "capture", !.id = id,
                         !.session = sessions[id], !.pc = "capUrl",
                         !.captured = TRUE]]
  /\ ncalls' = ncalls + 1
  /\ UNCHANGED <<sessions, sessionCounter, gsessions, drivers, issued>>
  /\ UNCHANGED <<exploreVars, parallel, activeSessionId>>

GetElementByRefStart(c, limit, id, ref) ==
  /\ MayCall(c, limit)
  /\ MapHas(sessions, id)
  /\ LET s == sessions[id]
         call == [IdleCall EXCEPT !.no = ncalls + 1, !.kind = "getElement",
                                  !.id = id, !.session = s, !.ref = ref]
     IN calls' = [calls EXCEPT ![c] =
          IF NeedsCapture(gsessions[s].snapshot)
          THEN [call EXCEPT !.pc = "capUrl", !.captured = TRUE]
          ELSE Lookup(call, gsessions[s].snapshot)]
  /\ ncalls' = ncalls + 1
  /\ UNCHANGED <<sessions, sessionCounter, gsessions, drivers, issued>>
  /\ UNCHANGED <<exploreVars, parallel, activeSessionId>>

\* await this.driver.getCurrentUrl() (and getTitle()) settled
CaptureUrl(c, ok) ==
  /\ calls[c].pc = "capUrl"
  /\ calls' = [calls EXCEPT ![c] =
        IF ok
        THEN [@ EXCEPT !.pc = "capElements",
                       !.url = drivers[gsessions[calls[c].session].driver].page]
        ELSE [@ EXCEPT !.pc = "threw", !.err = RemoteError]]
  /\ UNCHANGED <<sessions, sessionCounter, gsessions, drivers, ncalls, issued>>
  /\ UNCHANGED <<exploreVars, parallel, activeSessionId>>

\* await discoverElements(...) settled: the snapshot is assigned;
\* captureSnapshot returns it, getElementByRef goes on with the lookup
CaptureElements(c, ok) ==
  /\ calls[c].pc = "capElements"
  /\ LET s == calls[c].session
         snapshot == SnapshotOf(calls[c].url,
                                DiscoverElements(drivers[gsessions[s].driver].page))
     IN IF ok
        THEN /\ gsessions' = [gsessions EXCEPT ![s].snapshot = snapshot]
             /\ calls' = [calls EXCEPT ![c] =
                   IF @.kind = "capture"
                   THEN [@ EXCEPT !.pc = "returned"]
                   ELSE Lookup(@, snapshot)]
        ELSE /\ gsessions' = gsessions
             /\ calls' = [calls EXCEPT ![c].pc = "threw", ![c].err = RemoteError]
  /\ UNCHANGED <<sessions, sessionCounter, drivers, ncalls, issued>>
  /\ UNCHANGED <<exploreVars, parallel, activeSessionId>>

\* await driver.executeScript(FIND_ELEMENT_SCRIPT, ...) settled
FindSettle(c, ok) ==
  /\ calls[c].pc = "finding"
  /\ LET el == FindElement(drivers[gsessions[calls[c].session].driver].page,
                           calls[c].info[1])
     IN calls' = [calls EXCEPT ![c] =
          IF ~ok THEN [@ EXCEPT !.pc = "threw", !.err = RemoteError]
          ELSE IF el = <<>> THEN [@ EXCEPT !.pc = "threw", !.err = CouldNotFind]
          ELSE [@ EXCEPT !.pc = "returned", !.element = el]]
  /\ UNCHANGED <<sessions, sessionCounter, gsessions, drivers, ncalls, issued>>
  /\ UNCHANGED <<exploreVars, parallel, activeSessionId>>

\* calls on the sessions of the pool by one caller
MaxSessionCalls == 3

Refs == {"e1", "e2", "e3"}

NextSession ==
  \/ CreateSessionStart(1, MaxSessionCalls, <<>>)
  \/ \E st \in BOOLEAN : BuildOk(1, st, {})
  \/ BuildFail(1)
  \/ StealthOk(1, {})
  \/ StealthFail(1)
  \/ \E id \in DOMAIN sessions, page \in Pages : NavigateTo(id, page)
  \/ \E id \in DOMAIN sessions : CaptureSnapshotStart(1, MaxSessionCalls, id)
  \/ \E id \in DOMAIN sessions, ref \in Refs :
        GetElementByRefStart(1, MaxSessionCalls, id, ref)
  \/ \E ok \in BOOLEAN : CaptureUrl(1, ok)
  \/ \E ok \in BOOLEAN : CaptureElements(1, ok)
  \/ \E ok \in BOOLEAN : FindSettle(1, ok)

SpecSession == Init /\ [][NextSession]_vars

(***************************************************************************)
(* URLs.  A URL string is held parsed, as new URL(url) sees it: scheme     *)
(* ("" when the string does not parse as an absolute URL), host, path      *)
(* without its trailing slashes, the number of trailing slashes, the query *)
(* parameters in order, and the fragment.  Parameter names are numbered    *)
(* in code-unit order, which is the order searchParams.sort() uses.        *)
(***************************************************************************)
Url(scheme, host, path, slashes, query, frag) ==
  [scheme |-> scheme, host |-> host, path |-> path, slashes |-> slashes,
   query |-> query, frag |-> frag]

RECURSIVE InsertParam(_, _)
InsertParam(sorted, p) ==
  IF sorted = <<>> THEN <<p>>
  ELSE IF Head(sorted).k <= p.k
       THEN <<Head(sorted)>> \o InsertParam(Tail(sorted), p)
       ELSE <<p>> \o sorted

\* URLSearchParams.sort(): stable, by name
RECURSIVE SortParams(_)
SortParams(q) ==
  IF q = <<>> THEN <<>>
  ELSE InsertParam(SortParams(SubSeq(q, 1, Len(q) - 1)), q[Len(q)])

\* ExplorationCoordinator.normalizeUrl
normalizeUrl(u) ==
  IF u.scheme = "" THEN u
  ELSE [u EXCEPT !.frag = "",
                 !.slashes = IF u.path = "" THEN 1 ELSE 0,
                 !.query = SortParams(u.query)]

\* href.startsWith('http://') || href.startsWith('https://')
IsHttp(u) == u.scheme \in {"http", "https"}

(***************************************************************************)
(* The site the browsers are pointed at: what the driver reports after     *)
(* driver.get(url).                                                        *)
(***************************************************************************)
UrlA == Url("http", "h", "/a", 0, <<>>, "")
UrlB == Url("http", "h", "/b", 0, <<>>, "")
UrlBSlash == Url("http", "h", "/b", 1, <<>>, "")
UrlR == Url("http", "h", "/r", 0, <<>>, "")
UrlATop == Url("http", "h", "/a", 0, <<>>, "top")
UrlExt == Url("https", "other", "/x", 0, <<>>, "")
UrlFtp == Url("ftp", "h", "/f", 0, <<>>, "")
UrlRel == Url("", "", "/a", 0, <<>>, "")
UrlP == Url("http", "h", "/p", 0, <<>>, "")
UrlC == Url("http", "h", "/c", 0, <<>>, "")
UrlD == Url("http", "h", "/d", 0, <<>>, "")
UrlE == Url("http", "h", "/e", 0, <<>>, "")
UrlM == Url("http", "h", "/m", 0, <<>>, "")
UrlMail == Url("mailto", "", "x@h", 0, <<>>, "")

\* an a[href] of a document: its resolved href and what the script computes
\* for isInternal from baseUrl and the raw attribute
Link(href, internal) == [href |-> href, isInternal |-> internal]

\* /a links to /b, /b/, /r, itself, an external page and an ftp file;
\* /b links back to /a; /r redirects to /b, which then shows one element
\* more.
\* /p links to /c and /d (and an external page, and a mail address); /c has
\* no links; /d links back to /p and on to /e; /e links to itself.
\* /m has fifty links to external pages and then one to /c.
SitePages ==
  [u \in {UrlA, UrlB, UrlBSlash, UrlR, UrlP, UrlC, UrlD, UrlE, UrlM} |->
     CASE u = UrlA -> [currentUrl |-> UrlA, elements |-> 3,
                       anchors |-> <<Link(UrlB, TRUE), Link(UrlBSlash, TRUE),
                                     Link(UrlExt, FALSE), Link(UrlFtp, TRUE),
                                     Link(UrlATop, TRUE), Link(UrlR, TRUE)>>]
       [] u = UrlB -> [currentUrl |-> UrlB, elements |-> 1,
                       anchors |-> <<Link(UrlA, TRUE)>>]
       [] u = UrlBSlash -> [currentUrl |-> UrlBSlash, elements |-> 1,
                            anchors |-> <<Link(UrlA, TRUE)>>]
       [] u = UrlR -> [currentUrl |-> UrlB, elements |-> 2,
                       anchors |-> <<Link(UrlA, TRUE)>>]
       [] u = UrlP -> [currentUrl |-> UrlP, elements |-> 2,
                       anchors |-> <<Link(UrlC, TRUE), Link(UrlMail, FALSE),
                                     Link(UrlD, TRUE), Link(UrlExt, FALSE),
                                     Link(UrlC, TRUE)>>]
       [] u = UrlC -> [currentUrl |-> UrlC, elements |-> 0, anchors |-> <<>>]
       [] u = UrlD -> [currentUrl |-> UrlD, elements |-> 1,
                       anchors |-> <<Link(UrlP, TRUE), Link(UrlE, TRUE)>>]
       [] u = UrlE -> [currentUrl |-> UrlE, elements |-> 1,
                       anchors |-> <<Link(UrlE, TRUE)>>]
       [] u = UrlM -> [currentUrl |-> UrlM, elements |-> 50,
                       anchors |->
                         [k \in 1..50 |->
                            Link(Url("https", "other", "/x" \o ToString(k), 0, <<>>, ""),
                                 FALSE)]
                         \o <<Link(UrlC, TRUE)>>]]

\* var maxLinks = 50
MaxLinks == 50

\* EXTRACT_LINKS_SCRIPT: the anchors in document order, an href taken once,
\* non-navigable protocols skipped, at most maxLinks results
RECURSIVE ExtractFrom(_, _, _)
ExtractFrom(anchors, seen, out) ==
  IF anchors = <<>> \/ Len(out) >= MaxLinks THEN out
  ELSE LET a == Head(anchors)
       IN IF a.href \in seen
          THEN ExtractFrom(Tail(anchors), seen, out)
          ELSE IF a.href.scheme \in {"mailto", "tel", "javascript", "blob"}
          THEN ExtractFrom(Tail(anchors), seen \cup {a.href}, out)
          ELSE ExtractFrom(Tail(anchors), seen \cup {a.href}, Append(out, a))

ExtractLinks(anchors) == ExtractFrom(anchors, {}, <<>>)

\* driver.get(url) and the extraction calls after it all succeed
Loads(url, fails) == url \in DOMAIN SitePages /\ url \notin fails

(***************************************************************************)
(* ExplorationCoordinator.discoverPages: the state of the loop and one     *)
(* iteration of it.                                                        *)
(***************************************************************************)
DefaultMaxDepth == 2
DefaultMaxPages == 20

MaxDepthOf(target) ==
  IF target.maxDepth = <<>> THEN DefaultMaxDepth ELSE target.maxDepth[1]

MaxPagesOf(target) ==
  IF target.maxPages = <<>> THEN DefaultMaxPages ELSE target.maxPages[1]

\* navigated: the URLs handed to driver.get, in order
CrawlStart(startUrl) ==
  [queue |-> <<[url |-> startUrl, depth |-> 0]>>, visited |-> {}, pages |-> <<>>,
   navigated |-> <<>>]

\* (variant: <= for <)
CrawlRunning_inclusive(st, maxPages) ==
  Len(st.queue) > 0 /\ Len(st.pages) <= maxPages

\* while (queue.length > 0 && pages.length < maxPages)
CrawlRunning(st, maxPages) == Len(st.queue) > 0 /\ Len(st.pages) < maxPages

\* (variant: the visited set is not consulted)
RECURSIVE Enqueued_unchecked(_, _, _)
Enqueued_unchecked(links, visited, depth) ==
  IF links = <<>> THEN <<>>
  ELSE LET link == Head(links)
           rest == Enqueued_unchecked(Tail(links), visited, depth)
       IN IF link.isInternal /\ IsHttp(link.href)
          THEN <<[url |-> link.href, depth |-> depth]>> \o rest
          ELSE rest

\* (variant: external links are followed too)
RECURSIVE Enqueued_allLinks(_, _, _)
Enqueued_allLinks(links, visited, depth) ==
  IF links = <<>> THEN <<>>
  ELSE LET link == Head(links)
           rest == Enqueued_allLinks(Tail(links), visited, depth)
       IN IF normalizeUrl(link.href) \notin visited /\ IsHttp(link.href)
          THEN <<[url |-> link.href, depth |-> depth]>> \o rest
          ELSE rest

\* the queue entries the loop over links pushes
RECURSIVE Enqueued(_, _, _)
Enqueued(links, visited, depth) ==
  IF links = <<>> THEN <<>>
  ELSE LET link == Head(links)
           rest == Enqueued(Tail(links), visited, depth)
       IN IF /\ link.isInternal
             /\ normalizeUrl(link.href) \notin visited
             /\ IsHttp(link.href)
          THEN <<[url |-> link.href, depth |-> depth]>> \o rest
          ELSE rest

\* (variant: <= for <)
MayEnqueue_inclusive(depth, maxDepth) == depth <= maxDepth

\* (variant: the links of the pages one level above the limit are dropped)
MayEnqueue_short(depth, maxDepth) == depth + 1 < maxDepth

\* if (depth < maxDepth)
MayEnqueue(depth, maxDepth) == depth < maxDepth

\* (variant: the error ends the loop and loses the pages)
SkipPage_abort(st, rest, seen, nav) ==
  [queue |-> <<>>, visited |-> seen, pages |-> <<>>, navigated |-> nav]

\* (variant: the failed page goes back to the queue, unvisited)
SkipPage_retry(st, rest, seen, nav) ==
  [st EXCEPT !.queue = Append(rest, Head(st.queue))]

\* catch { continue }: the page is skipped, the loop goes on
SkipPage(st, rest, seen, nav) ==
  [st EXCEPT !.queue = rest, !.visited = seen, !.navigated = nav]

\* one iteration of the loop: the head of the queue is dropped when its
\* key was visited, else navigated to and, when every remote call of the
\* try block resolved, captured
CrawlIteration(st, maxDepth, fails) ==
  LET head == Head(st.queue)
      rest == Tail(st.queue)
      key == normalizeUrl(head.url)
      seen == st.visited \cup {key}
      nav == Append(st.navigated, head.url)
  IN IF key \in st.visited
     THEN [st EXCEPT !.queue = rest]
     ELSE IF ~Loads(head.url, fails)
     THEN SkipPage(st, rest, seen, nav)
     ELSE LET got == SitePages[head.url]
              links == ExtractLinks(got.anchors)
              page == [url |-> got.currentUrl, depth |-> head.depth,
                       elements |-> got.elements, links |-> links]
          IN [queue |-> IF MayEnqueue(head.depth, maxDepth)
                        THEN rest \o Enqueued(links, seen, head.depth + 1)
                        ELSE rest,
              visited |-> seen,
              pages |-> Append(st.pages, page),
              navigated |-> nav]

\* the whole loop, run by itself
RECURSIVE RunCrawl(_, _, _, _)
RunCrawl(st, maxDepth, maxPages, fails) ==
  IF CrawlRunning(st, maxPages)
  THEN RunCrawl(CrawlIteration(st, maxDepth, fails), maxDepth, maxPages, fails)
  ELSE st.pages

(***************************************************************************)
(* ExplorationCoordinator.explore                                          *)
(***************************************************************************)
\* targets in one explore call
MaxTargets == 2
\* targets in one behaviour
MaxExplorations == 2

Target(url, maxDepth, maxPages, auth) ==
  [url |-> url, maxDepth |-> maxDepth, maxPages |-> maxPages, auth |-> auth]

\* a target together with the pages that fail to load while it is crawled
Scenarios ==
  {[target |-> Target(UrlA, <<1>>, <<5>>, FALSE), fails |-> {}],
   [target |-> Target(UrlA, <<>>, <<2>>, TRUE), fails |-> {UrlB}],
   [target |-> Target(UrlRel, <<0>>, <<>>, TRUE), fails |-> {}]}

ExploreTags == {"exploration"}

Err(name, message) == [name |-> name, message |-> message]

BuildError == Err("SessionNotCreatedError", "session not created")
StealthError == Err("WebDriverError", "bidi not available")
AuthError == Err("NoSuchElementError", "no such element")
DuplicateError(id) == Err("Error", "Session \"" \o id \o "\" already exists")

\* err instanceof Error ? err.message : String(err)
ErrorMessage(e) == e.message

\* String(reason), i.e. Error.prototype.toString
ErrorString(e) ==
  IF e.message = "" THEN e.name ELSE e.name \o ": " \o e.message

\* `exp-${++this.explorationCounter}`
ExplorationId(n) == "exp-" \o ToString(n)

SessionIdOf(explorationId) == explorationId \o "-session"

\* (variant: the status not derived from the pages)
StatusOf_completed(pages) == "completed"

\* pages.length > 0 ? 'completed' : 'partial'
StatusOf(pages) == IF Len(pages) > 0 THEN "completed" ELSE "partial"

\* the record exploreTarget returns
TargetResult(explorationId, target, sessionId, pages) ==
  [explorationId |-> explorationId, target |-> target, sessionId |-> sessionId,
   status |-> StatusOf(pages), error |-> <<>>, pages |-> pages]

\* the record built in explore's catch block
ErrorResult(explorationId, target, sessionId, e) ==
  [explorationId |-> explorationId, target |-> target, sessionId |-> sessionId,
   status |-> "failed", error |-> <<ErrorMessage(e)>>, pages |-> <<>>]

\* the record explore substitutes for a rejected closure
RejectedResult(e) ==
  [explorationId |-> "exp-error", target |-> Target(Url("", "", "", 0, <<>>, ""), <<>>, <<>>, FALSE),
   sessionId |-> "", status |-> "failed", error |-> <<ErrorString(e)>>,
   pages |-> <<>>]

Task(sc, explorationId) ==
  [target |-> sc.target, fails |-> sc.fails, explorationId |-> explorationId,
   pc |-> "building", driver |-> 0, session |-> 0,
   crawl |-> CrawlStart(sc.target.url), value |-> <<>>, caught |-> <<>>,
   reason |-> <<>>]

Settled(t) == t.pc \in {"fulfilled", "rejected"}

\* Promise.allSettled(tasks) has settled
ExploreSettled(ts) == \A i \in DOMAIN ts : Settled(ts[i])

\* results.map(r => r.status === 'fulfilled' ? r.value : {...})
ExploreReturn(ts) ==
  [i \in DOMAIN ts |->
     IF ts[i].pc = "fulfilled" THEN ts[i].value[1]
     ELSE RejectedResult(ts[i].reason[1])]

\* (variant: the error takes the sibling closures down with it)
Reject_abortsAll(i, e) ==
  tasks' = [k \in DOMAIN tasks |->
              IF k = i \/ tasks[k].pc \notin {"fulfilled", "rejected"}
              THEN [tasks[k] EXCEPT !.pc = "rejected", !.reason = <<e>>]
              ELSE tasks[k]]

\* an error leaves the closure: its promise is rejected
Reject(i, e) ==
  tasks' = [tasks EXCEPT ![i].pc = "rejected", ![i].reason = <<e>>]

\* (variant: the store holds the newest result only)
Fulfil_newestOnly(i, result) ==
  /\ results' = MapSet(EmptyMap, tasks[i].explorationId, result)
  /\ tasks' = [tasks EXCEPT ![i].pc = "fulfilled", ![i].value = <<result>>]

\* this.results.set(explorationId, result); return result
Fulfil(i, result) ==
  /\ results' = MapSet(results, tasks[i].explorationId, result)
  /\ tasks' = [tasks EXCEPT ![i].pc = "fulfilled", ![i].value = <<result>>]

\* targets.map(async (target) => ...): every closure runs up to the awaited
\* build inside pool.createSession, in the order of the targets
ExploreStart(scs) ==
  /\ tasks = <<>> \/ returned # <<>>
  /\ explorationCounter + Len(scs) <= MaxExplorations
  /\ explorationCounter' = explorationCounter + Len(scs)
  /\ tasks' = [i \in DOMAIN scs |->
       LET t == Task(scs[i], ExplorationId(explorationCounter + i))
       IN IF IsDuplicate(sessions, {}, SessionIdOf(t.explorationId))
          THEN [t EXCEPT !.pc = "rejected",
                         !.reason = <<DuplicateError(SessionIdOf(t.explorationId))>>]
          ELSE t]
  /\ returned' = <<>>
  /\ UNCHANGED <<sessions, sessionCounter, gsessions, drivers, calls, ncalls,
                 issued, results>>
  /\ UNCHANGED <<lastCall, parallel, activeSessionId>>

\* createSession returned the session; explore enters its try block and
\* exploreTarget runs up to its first await
TaskRegister(i, d) ==
  LET id == SessionIdOf(tasks[i].explorationId)
      s == Len(gsessions) + 1
  IN /\ gsessions' = Append(gsessions, GridSession(id, d, ExploreTags))
     /\ sessions' = MapSet(sessions, id, s)
     /\ tasks' = [tasks EXCEPT ![i].driver = d, ![i].session = s,
                               ![i].pc = IF tasks[i].target.auth THEN "auth" ELSE "crawl"]

\* await builder.build() resolved
TaskBuildOk(i, stealth) ==
  /\ i \in DOMAIN tasks /\ tasks[i].pc = "building"
  /\ drivers' = Append(drivers, NewDriver)
  /\ IF stealth
     THEN /\ tasks' = [tasks EXCEPT ![i].pc = "stealth", ![i].driver = Len(drivers) + 1]
          /\ UNCHANGED <<sessions, gsessions>>
     ELSE TaskRegister(i, Len(drivers) + 1)
  /\ UNCHANGED <<sessionCounter, calls, ncalls, issued, explorationCounter,
                 results, returned>>
  /\ UNCHANGED <<lastCall, parallel, activeSessionId>>

\* await builder.build() rejected
TaskBuildFail(i) ==
  /\ i \in DOMAIN tasks /\ tasks[i].pc = "building"
  /\ Reject(i, BuildError)
  /\ UNCHANGED <<sessions, sessionCounter, gsessions, drivers, calls, ncalls,
                 issued, explorationCounter, results, returned>>
  /\ UNCHANGED <<lastCall, parallel, activeSessionId>>

\* await applyStealthScripts(...) resolved
TaskStealthOk(i) ==
  /\ i \in DOMAIN tasks /\ tasks[i].pc = "stealth"
  /\ TaskRegister(i, tasks[i].driver)
  /\ UNCHANGED <<sessionCounter, drivers, calls, ncalls, issued,
                 explorationCounter, results, returned>>
  /\ UNCHANGED <<lastCall, parallel, activeSessionId>>

\* await applyStealthScripts(...) rejected
TaskStealthFail(i) ==
  /\ i \in DOMAIN tasks /\ tasks[i].pc = "stealth"
  /\ Reject(i, StealthError)
  /\ UNCHANGED <<sessions, sessionCounter, gsessions, drivers, calls, ncalls,
                 issued, explorationCounter, results, returned>>
  /\ UNCHANGED <<lastCall, parallel, activeSessionId>>

\* await this.authenticate(...) resolved
TaskAuthOk(i) ==
  /\ i \in DOMAIN tasks /\ tasks[i].pc = "auth"
  /\ tasks' = [tasks EXCEPT ![i].pc = "crawl"]
  /\ UNCHANGED <<sessions, sessionCounter, gsessions, drivers, calls, ncalls,
                 issued, explorationCounter, results, returned>>
  /\ UNCHANGED <<lastCall, parallel, activeSessionId>>

\* await this.authenticate(...) rejected: explore's catch block
TaskAuthFail(i) ==
  /\ i \in DOMAIN tasks /\ tasks[i].pc = "auth"
  /\ results' = MapSet(results, tasks[i].explorationId,
                       ErrorResult(tasks[i].explorationId, tasks[i].target,
                                   gsessions[tasks[i].session].sessionId, AuthError))
  /\ tasks' = [tasks EXCEPT ![i].pc = "fulfilled", ![i].caught = <<AuthError>>,
                            ![i].value = <<results'[tasks[i].explorationId]>>]
  /\ UNCHANGED <<sessions, sessionCounter, gsessions, drivers, calls, ncalls,
                 issued, explorationCounter, returned>>
  /\ UNCHANGED <<lastCall, parallel, activeSessionId>>

\* one iteration of the loop of discoverPages
TaskCrawl(i) ==
  /\ i \in DOMAIN tasks /\ tasks[i].pc = "crawl"
  /\ CrawlRunning(tasks[i].crawl, MaxPagesOf(tasks[i].target))
  /\ tasks' = [tasks EXCEPT ![i].crawl =
        CrawlIteration(@, MaxDepthOf(tasks[i].target), tasks[i].fails)]
  /\ UNCHANGED <<sessions, sessionCounter, gsessions, drivers, calls, ncalls,
                 issued, explorationCounter, results, returned>>
  /\ UNCHANGED <<lastCall, parallel, activeSessionId>>

\* the loop is left: exploreTarget returns its record and explore stores it
TaskFinish(i) ==
  /\ i \in DOMAIN tasks /\ tasks[i].pc = "crawl"
  /\ ~CrawlRunning(tasks[i].crawl, MaxPagesOf(tasks[i].target))
  /\ Fulfil(i, TargetResult(tasks[i].explorationId, tasks[i].target,
                            gsessions[tasks[i].session].sessionId,
                            tasks[i].crawl.pages))
  /\ UNCHANGED <<sessions, sessionCounter, gsessions, drivers, calls, ncalls,
                 issued, explorationCounter, returned>>
  /\ UNCHANGED <<lastCall, parallel, activeSessionId>>

\* Promise.allSettled(tasks).then(...)
ExploreFinish ==
  /\ tasks # <<>> /\ returned = <<>>
  /\ ExploreSettled(tasks)
  /\ returned' = <<ExploreReturn(tasks)>>
  /\ UNCHANGED <<sessions, sessionCounter, gsessions, drivers, calls, ncalls,
                 issued, explorationCounter, results, tasks>>
  /\ UNCHANGED <<lastCall, parallel, activeSessionId>>

\* ExplorationCoordinator.getResult
getResult(explorationId) ==
  IF MapHas(results, explorationId) THEN <<results[explorationId]>> ELSE <<>>

TargetLists ==
  UNION {[1..n -> Scenarios] : n \in 1..MaxTargets}

NextExplore ==
  \/ \E scs \in TargetLists : ExploreStart(scs)
  \/ \E i \in DOMAIN tasks, st \in BOOLEAN : TaskBuildOk(i, st)
  \/ \E i \in DOMAIN tasks : TaskBuildFail(i)
  \/ \E i \in DOMAIN tasks : TaskStealthOk(i)
  \/ \E i \in DOMAIN tasks : TaskStealthFail(i)
  \/ \E i \in DOMAIN tasks : TaskAuthOk(i)
  \/ \E i \in DOMAIN tasks : TaskAuthFail(i)
  \/ \E i \in DOMAIN tasks : TaskCrawl(i)
  \/ \E i \in DOMAIN tasks : TaskFinish(i)
  \/ ExploreFinish

SpecExplore == Init /\ [][NextExplore]_vars

(***************************************************************************)
(* The first explore call, of one target without credentials whose session *)
(* is created without stealth: one crawl by itself, over a family of start *)
(* URLs, limits and failing pages.                                         *)
(***************************************************************************)
CrawlStarts == {UrlA, UrlP, UrlC, UrlE, UrlM}
CrawlDepths == {<<0>>, <<1>>, <<>>, <<3>>}
CrawlBudgets == {<<1>>, <<2>>, <<3>>, <<>>}
CrawlFailures == {{}, {UrlB}, {UrlD}, {UrlA, UrlP}}

CrawlScenarios ==
  {[target |-> Target(u, d, b, FALSE), fails |-> f] :
     u \in CrawlStarts, d \in CrawlDepths, b \in CrawlBudgets, f \in CrawlFailures}

NextCrawl ==
  \/ \E sc \in CrawlScenarios : explorationCounter = 0 /\ ExploreStart(<<sc>>)
  \/ TaskBuildOk(1, FALSE)
  \/ TaskCrawl(1)
  \/ TaskFinish(1)
  \/ ExploreFinish

SpecCrawl == Init /\ [][NextCrawl]_vars

\* every remote call of an iteration returns in the end, with a result or
\* with an error: an iteration that was begun is completed
\* the crawls whose site has a cycle (/a and /b, /p and /d), a page linking
\* to itself (/a, /e), or no link at all (/c)
TerminationScenarios ==
  {sc \in CrawlScenarios : sc.target.url \in {UrlA, UrlP, UrlC, UrlE}}

NextTerminate ==
  \/ \E sc \in TerminationScenarios : explorationCounter = 0 /\ ExploreStart(<<sc>>)
  \/ TaskBuildOk(1, FALSE)
  \/ TaskCrawl(1)
  \/ TaskFinish(1)
  \/ ExploreFinish

SpecCrawlFair == Init /\ [][NextTerminate]_vars /\ WF_vars(TaskCrawl(1))

(***************************************************************************)
(* normalizeUrl applied to one URL string at a time.  Parameter a is       *)
(* numbered 1 and b is numbered 2.                                         *)
(***************************************************************************)
Param(k, v) == [k |-> k, v |-> v]

UrlQueries ==
  {<<>>,
   <<Param(2, "1"), Param(1, "2")>>, <<Param(1, "2"), Param(2, "1")>>,
   <<Param(1, "1"), Param(1, "2")>>, <<Param(1, "2"), Param(1, "1")>>}

\* strings that parse as absolute URLs, and paths such as /a?b=1&a=2
UrlInputs ==
  {Url(sc, IF sc = "" THEN "" ELSE "h", path, sl, q, fr) :
     sc \in {"", "http", "https"}, path \in {"", "/a", "/a/b"}, sl \in 0..2,
     q \in UrlQueries, fr \in {"", "frag"}}

NormalizeUrl(u) ==
  /\ lastCall' = [op |-> "normalizeUrl", args |-> <<u>>, threw |-> <<>>,
                  value |-> <<normalizeUrl(u)>>]
  /\ UNCHANGED <<sessions, sessionCounter, gsessions, drivers, calls, ncalls,
                 issued, explorationCounter, results, tasks, returned, parallel,
                 activeSessionId>>

NextNormalize == \E u \in UrlInputs : NormalizeUrl(u)

SpecNormalize == Init /\ [][NextNormalize]_vars

(***************************************************************************)
(* ExplorationCoordinator.merge                                            *)
(***************************************************************************)
NoExplorations == Err("Error", "No explorations found for the given IDs")

\* explorationIds.map(id => this.results.get(id)).filter(r => r !== undefined)
RECURSIVE Explorations(_, _)
Explorations(store, ids) ==
  IF ids = <<>> THEN <<>>
  ELSE (IF MapHas(store, Head(ids)) THEN <<store[Head(ids)]>> ELSE <<>>)
       \o Explorations(store, Tail(ids))

\* (variant: a page whose key is already in the map is not counted)
Counted_newOnly(totalPages, isNew) ==
  IF isNew THEN totalPages + 1 ELSE totalPages

\* totalPages++
Counted(totalPages, isNew) == totalPages + 1

\* the entry urlMap gets for the first page of a key
SiteMapEntry(page, explorationId) ==
  [url |-> page.url, depth |-> page.depth, discoveredBy |-> <<explorationId>>,
   links |-> Len(page.links), interactiveElements |-> page.elements]

\* the body of the inner loop; urlMap is kept as the sequence of its keys in
\* insertion order and the sequence of their entries
MergePage(acc, page, explorationId) ==
  LET normalized == normalizeUrl(page.url)
      at == {k \in DOMAIN acc.keys : acc.keys[k] = normalized}
  IN IF at # {}
     THEN LET k == CHOOSE x \in at : TRUE
          IN [acc EXCEPT !.totalPages = Counted(@, FALSE),
                         !.siteMap[k].discoveredBy = Append(@, explorationId)]
     ELSE [totalPages |-> Counted(acc.totalPages, TRUE),
           keys |-> Append(acc.keys, normalized),
           siteMap |-> Append(acc.siteMap, SiteMapEntry(page, explorationId))]

RECURSIVE MergePages(_, _, _)
MergePages(acc, pages, explorationId) ==
  IF pages = <<>> THEN acc
  ELSE MergePages(MergePage(acc, Head(pages), explorationId), Tail(pages),
                  explorationId)

RECURSIVE MergeExplorations(_, _)
MergeExplorations(acc, explorations) ==
  IF explorations = <<>> THEN acc
  ELSE MergeExplorations(
         MergePages(acc, Head(explorations).pages, Head(explorations).explorationId),
         Tail(explorations))

\* what merge throws (threw) or returns (value) for the store and the ids
merge(store, explorationIds) ==
  LET explorations == Explorations(store, explorationIds)
      acc == MergeExplorations([totalPages |-> 0, keys |-> <<>>, siteMap |-> <<>>],
                               explorations)
  IN IF Len(explorations) = 0
     THEN [threw |-> <<NoExplorations>>, value |-> <<>>]
     ELSE [threw |-> <<>>,
           value |-> <<[explorationIds |-> explorationIds,
                        totalPages |-> acc.totalPages,
                        uniquePages |-> Len(acc.keys),
                        duplicatesRemoved |-> acc.totalPages - Len(acc.keys),
                        siteMap |-> acc.siteMap]>>]

\* a call of merge
Merge(explorationIds) ==
  /\ LET r == merge(results, explorationIds)
     IN lastCall' = [op |-> "merge", args |-> explorationIds,
                     threw |-> r.threw, value |-> r.value]
  /\ UNCHANGED <<sessions, sessionCounter, gsessions, drivers, calls, ncalls,
                 issued, explorationCounter, results, tasks, returned, parallel,
                 activeSessionId>>

\* ids in one merge call
MaxMergeIds == 2

\* the first two ids explore issues
MergeIds == {ExplorationId(1), ExplorationId(2)}

MergeIdLists == UNION {[1..n -> MergeIds] : n \in 1..MaxMergeIds}

\* /c by itself; /a with /b, which /r redirects to; a path, which does not
\* load
MergeScenarios ==
  {[target |-> Target(UrlC, <<>>, <<>>, FALSE), fails |-> {}],
   [target |-> Target(UrlA, <<1>>, <<>>, FALSE), fails |-> {}],
   [target |-> Target(UrlRel, <<0>>, <<>>, FALSE), fails |-> {}]}

\* explore calls of one target each, and merge calls between their steps
NextMerge ==
  \/ \E sc \in MergeScenarios : ExploreStart(<<sc>>)
  \/ TaskBuildOk(1, FALSE)
  \/ TaskCrawl(1)
  \/ TaskFinish(1)
  \/ ExploreFinish
  \/ \E ids \in MergeIdLists : Merge(ids)

SpecMerge == Init /\ [][NextMerge]_vars

(***************************************************************************)
(* ExplorationCoordinator.diff                                             *)
(***************************************************************************)
BaselineNotFound(id) == Err("Error", "Baseline exploration not found: " \o id)
CurrentNotFound(id) == Err("Error", "Current exploration not found: " \o id)

\* new Map(pairs): a key keeps the place of its first pair and the value of
\* its last; the map is kept as the sequence of its [key, page] entries
RECURSIVE MapOfPages(_, _)
MapOfPages(entries, pages) ==
  IF pages = <<>> THEN entries
  ELSE LET key == normalizeUrl(Head(pages).url)
           at == {k \in DOMAIN entries : entries[k].key = key}
       IN MapOfPages(
            IF at # {}
            THEN [entries EXCEPT ![CHOOSE k \in at : TRUE].page = Head(pages)]
            ELSE Append(entries, [key |-> key, page |-> Head(pages)]),
            Tail(pages))

\* (variant: every page of current is compared, not one page for each key)
CurrentUrls_everyPage(pages) ==
  [k \in DOMAIN pages |-> [key |-> normalizeUrl(pages[k].url), page |-> pages[k]]]

\* new Map(current.pages.map(p => [this.normalizeUrl(p.url), p]))
CurrentUrls(pages) == MapOfPages(<<>>, pages)

\* new Map(baseline.pages.map(p => [this.normalizeUrl(p.url), p]))
BaselineUrls(pages) == MapOfPages(<<>>, pages)

\* map.get(key): <<>> for undefined
MapGet(entries, key) ==
  LET at == {k \in DOMAIN entries : entries[k].key = key}
  IN IF at = {} THEN <<>> ELSE <<entries[CHOOSE k \in at : TRUE].page>>

\* (variant: every page found in both is reported as changed)
IsChanged_always(baselinePage, page) == TRUE

\* baselinePage.elements !== page.elements
IsChanged(baselinePage, page) == baselinePage.elements # page.elements

\* the first loop, over the entries of currentUrls
RECURSIVE DiffCurrent(_, _, _)
DiffCurrent(acc, currentUrls, baselineUrls) ==
  IF currentUrls = <<>> THEN acc
  ELSE LET page == Head(currentUrls).page
           baselinePage == MapGet(baselineUrls, Head(currentUrls).key)
       IN DiffCurrent(
            IF baselinePage = <<>>
            THEN [acc EXCEPT !.added = Append(@, page.url)]
            ELSE IF IsChanged(baselinePage[1], page)
            THEN [acc EXCEPT !.changed =
                    Append(@, [url |-> page.url,
                               elementDiff |-> page.elements - baselinePage[1].elements])]
            ELSE acc,
            Tail(currentUrls), baselineUrls)

\* the second loop, over the entries of baselineUrls
RECURSIVE DiffBaseline(_, _, _)
DiffBaseline(acc, baselineUrls, currentUrls) ==
  IF baselineUrls = <<>> THEN acc
  ELSE DiffBaseline(
         IF MapGet(currentUrls, Head(baselineUrls).key) = <<>>
         THEN [acc EXCEPT !.removed = Append(@, Head(baselineUrls).page.url)]
         ELSE acc,
         Tail(baselineUrls), currentUrls)

\* what diff throws (threw) or returns (value) for the store and the ids
diff(store, baselineId, currentId) ==
  IF ~MapHas(store, baselineId)
  THEN [threw |-> <<BaselineNotFound(baselineId)>>, value |-> <<>>]
  ELSE IF ~MapHas(store, currentId)
  THEN [threw |-> <<CurrentNotFound(currentId)>>, value |-> <<>>]
  ELSE LET baselineUrls == BaselineUrls(store[baselineId].pages)
           currentUrls == CurrentUrls(store[currentId].pages)
           empty == [added |-> <<>>, removed |-> <<>>, changed |-> <<>>]
       IN [threw |-> <<>>,
           value |-> <<DiffBaseline(DiffCurrent(empty, currentUrls, baselineUrls),
                                    baselineUrls, currentUrls)>>]

\* a call of diff
Diff(baselineId, currentId) ==
  /\ LET r == diff(results, baselineId, currentId)
     IN lastCall' = [op |-> "diff", args |-> <<baselineId, currentId>>,
                     threw |-> r.threw, value |-> r.value]
  /\ UNCHANGED <<sessions, sessionCounter, gsessions, drivers, calls, ncalls,
                 issued, explorationCounter, results, tasks, returned, parallel,
                 activeSessionId>>

\* /a and /b; /b as /r shows it; /a and /b both ways; /c by itself; a path,
\* which does not load
StoreScenarios ==
  {[target |-> Target(UrlA, <<1>>, <<2>>, FALSE), fails |-> {}],
   [target |-> Target(UrlR, <<0>>, <<>>, FALSE), fails |-> {}],
   [target |-> Target(UrlA, <<1>>, <<>>, FALSE), fails |-> {}],
   [target |-> Target(UrlC, <<>>, <<>>, FALSE), fails |-> {}],
   [target |-> Target(UrlRel, <<0>>, <<>>, FALSE), fails |-> {}]}

\* explore calls of one target each, with merge calls of one id and diff
\* calls between their steps
NextStore ==
  \/ \E sc \in StoreScenarios : ExploreStart(<<sc>>)
  \/ TaskBuildOk(1, FALSE)
  \/ TaskBuildFail(1)
  \/ TaskCrawl(1)
  \/ TaskFinish(1)
  \/ ExploreFinish
  \/ \E id \in MergeIds : Merge(<<id>>)
  \/ \E b \in MergeIds, c \in MergeIds : Diff(b, c)

SpecStore == Init /\ [][NextStore]_vars

(***************************************************************************)
(* ParallelExecuteTool.execute (tools/grid/parallel-execute.ts).  A task   *)
(* is [sessionId, tags, steps]: sessionId is <<>> when the task names no   *)
(* session, steps are the names of the tools to run.  What a tool does to  *)
(* the page is left out: an invocation ends in a result, in a result with  *)
(* isError set, or in an exception.                                        *)
(***************************************************************************)
\* the tools registered with setToolRegistry
ToolRegistry ==
  {"take_screenshot", "session_list", "parallel_execute", "batch_execute"}

ParallelTask(sessionId, tgs, steps) ==
  [sessionId |-> sessionId, tags |-> tgs, steps |-> steps]

StepResult(step, tool, status, content) ==
  [step |-> step, tool |-> tool, status |-> status, content |-> content]

SessionNotFound(id) == "Session \"" \o id \o "\" not found"
CreationFailed(e) == "Session creation failed: " \o ErrorMessage(e)
RecursiveCall(tool) == "Recursive " \o tool \o " calls are not allowed"
UnknownTool(tool) == "Unknown tool: " \o tool
SkippedContent == "Skipped due to previous error"

FailedTask(taskIndex, sessionId, error) ==
  [taskIndex |-> taskIndex, sessionId |-> sessionId, status |-> "failed",
   error |-> <<error>>, stepResults |-> <<>>]

\* the loop over the tasks: those that name a session are resolved against
\* the pool m or failed, the others wait for a new session.  Index k of the
\* sequence is taskIndex k - 1.
RECURSIVE Phase1(_, _, _, _)
Phase1(taskList, k, m, acc) ==
  IF k > Len(taskList) THEN acc
  ELSE LET task == taskList[k]
       IN Phase1(taskList, k + 1, m,
            IF task.sessionId # <<>> /\ task.sessionId[1] # ""
            THEN IF ~MapHas(m, task.sessionId[1])
                 THEN [acc EXCEPT !.failedTasks =
                         Append(@, FailedTask(k - 1, task.sessionId[1],
                                              SessionNotFound(task.sessionId[1])))]
                 ELSE [acc EXCEPT !.resolvedTasks =
                         Append(@, [taskIndex |-> k - 1,
                                    sessionId |-> task.sessionId[1],
                                    steps |-> task.steps])]
            ELSE [acc EXCEPT !.needsNewSession =
                    Append(@, [taskIndex |-> k - 1, tags |-> task.tags,
                               steps |-> task.steps])])

\* the closure of needsNewSession[j] up to the awaited build inside
\* pool.createSession: the j-th id after counter, checked against the pool
Creation(j, counter, m) ==
  LET id == AutoId(counter + j)
  IN IF IsDuplicate(m, {}, id)
     THEN [pc |-> "rejected", id |-> id, driver |-> 0, reason |-> <<DuplicateError(id)>>]
     ELSE [pc |-> "building", id |-> id, driver |-> 0, reason |-> <<>>]

CreationSettled(c) == c.pc \in {"fulfilled", "rejected"}

\* the loop over creationResults
RECURSIVE Collect(_, _)
Collect(p, j) ==
  IF j > Len(p.creations) THEN p
  ELSE Collect(
         IF p.creations[j].pc = "fulfilled"
         THEN [p EXCEPT !.resolvedTasks =
                          Append(@, [taskIndex |-> p.needsNewSession[j].taskIndex,
                                     sessionId |-> p.creations[j].id,
                                     steps |-> p.needsNewSession[j].steps]),
                        !.createdSessionIds = Append(@, p.creations[j].id)]
         ELSE [p EXCEPT !.failedTasks =
                          Append(@, FailedTask(p.needsNewSession[j].taskIndex, "",
                                               CreationFailed(p.creations[j].reason[1])))],
         j + 1)

\* steps i+1 .. of a task, marked skipped
Skipped(steps, i) ==
  [j \in 1..(Len(steps) - i) |->
     StepResult(i + j, steps[i + j], "skipped", SkippedContent)]

\* (variant: only the tool's own name is blocked)
IsRecursive_selfOnly(tool) == tool = "parallel_execute"

\* step.tool === 'parallel_execute' || step.tool === 'batch_execute'
IsRecursive(tool) == tool \in {"parallel_execute", "batch_execute"}

\* this.toolRegistry.find(t => t.name === step.tool)
FindTool(tool) == IF tool \in ToolRegistry THEN <<tool>> ELSE <<>>

\* (variant: the loop is never left early)
StopsAt_never(isError, threw) == FALSE

\* (variant: the loop is left on an exception only)
StopsAt_thrownOnly(isError, threw) == threw

\* the loop is left after a result with isError and in the catch block
StopsAt(isError, threw) == isError \/ threw

\* invoked and finished: the steps whose tool.execute was called, and those
\* whose call settled, in order
NewRun ==
  [pc |-> "running", i |-> 0, stepResults |-> <<>>, invoked |-> <<>>,
   finished |-> <<>>, session |-> 0]

\* const gridSession = pool.getSession(resolved.sessionId)!: the session by
\* reference, 0 for undefined
GridSessionOf(m, sessionId) == IF MapHas(m, sessionId) THEN m[sessionId] ELSE 0

\* the loop of a task's closure from step i on, up to the next awaited
\* tool.execute or to the end of the closure
RunFrom(run, steps, i) ==
  IF i > Len(steps) THEN [run EXCEPT !.pc = "fulfilled"]
  ELSE IF IsRecursive(steps[i])
  THEN [run EXCEPT !.pc = "fulfilled",
                   !.stepResults = (@ \o <<StepResult(i, steps[i], "error",
                                                      RecursiveCall(steps[i]))>>)
                                   \o Skipped(steps, i)]
  ELSE IF FindTool(steps[i]) = <<>>
  THEN [run EXCEPT !.pc = "fulfilled",
                   !.stepResults = (@ \o <<StepResult(i, steps[i], "error",
                                                      UnknownTool(steps[i]))>>)
                                   \o Skipped(steps, i)]
  ELSE [run EXCEPT !.pc = "awaiting", !.i = i, !.invoked = Append(@, i)]

\* what a tool invocation can end in
Outcomes == {"result", "isError", "throws"}

\* the tools that begin with context.getDriver(), which a SessionContext
\* answers with gridSession.getDriver()
NeedsBrowser(tool) == tool = "take_screenshot"

\* the session a closure holds can still serve a tool: it is defined and
\* no quit was sent to its browser
Usable(s, gs, ds) == s # 0 /\ ~ds[gs[s].driver].quitCalled

\* a tool that drives the browser fails on a session that is not usable (a
\* command that was answered is taken to settle before the quit is sent);
\* a tool that does not, such as session_list, ends as it would anyway
ToolOutcomes(tool, usable) ==
  IF NeedsBrowser(tool) /\ ~usable THEN Outcomes \ {"result"} ELSE Outcomes

\* the awaited tool.execute of step run.i settled; the loop goes on
SettleStep(run, steps, outcome) ==
  LET i == run.i
      pushed == [run EXCEPT
                   !.finished = Append(@, i),
                   !.stepResults =
                      Append(@, StepResult(i, steps[i],
                                   IF outcome = "result" THEN "success" ELSE "error",
                                   IF outcome = "throws" THEN "Error: tool failed"
                                   ELSE outcome))]
  IN IF outcome # "result" /\ StopsAt(outcome = "isError", outcome = "throws")
     THEN [pushed EXCEPT !.pc = "fulfilled", !.stepResults = @ \o Skipped(steps, i)]
     ELSE RunFrom(pushed, steps, i + 1)

\* (variant: no task is run once a task has failed)
Phase2_allOrNothing(p, m) ==
  [p EXCEPT !.pc = "running",
            !.runs = [k \in DOMAIN p.resolvedTasks |->
                        IF p.failedTasks # <<>>
                        THEN [NewRun EXCEPT !.pc = "fulfilled"]
                        ELSE RunFrom(NewRun, p.resolvedTasks[k].steps, 1)]]

\* resolvedTasks.map(async (resolved) => ...): every closure runs up to its
\* first awaited tool.execute
Phase2(p, m) ==
  [p EXCEPT !.pc = "running",
            !.runs = [k \in DOMAIN p.resolvedTasks |->
                        RunFrom([NewRun EXCEPT !.session =
                                   GridSessionOf(m, p.resolvedTasks[k].sessionId)],
                                p.resolvedTasks[k].steps, 1)]]

\* what the closure of resolvedTasks[k] returns
ExecutionResult(resolved, run) ==
  [taskIndex |-> resolved.taskIndex, sessionId |-> resolved.sessionId,
   status |-> IF \E k \in DOMAIN run.stepResults : run.stepResults[k].status = "error"
              THEN "failed" ELSE "completed",
   error |-> <<>>, stepResults |-> run.stepResults]

RECURSIVE InsertByTaskIndex(_, _)
InsertByTaskIndex(sorted, r) ==
  IF sorted = <<>> THEN <<r>>
  ELSE IF Head(sorted).taskIndex <= r.taskIndex
  THEN <<Head(sorted)>> \o InsertByTaskIndex(Tail(sorted), r)
  ELSE <<r>> \o sorted

\* (variant: the results are left in the order they were collected)
SortByTaskIndex_unsorted(rs) == rs

\* Array.prototype.sort((a, b) => a.taskIndex - b.taskIndex), which is stable
RECURSIVE SortByTaskIndex(_)
SortByTaskIndex(rs) ==
  IF rs = <<>> THEN <<>>
  ELSE InsertByTaskIndex(SortByTaskIndex(SubSeq(rs, 1, Len(rs) - 1)), rs[Len(rs)])

\* [...failedTasks, ...executionResults].sort(...)
TaskResults(p) ==
  SortByTaskIndex(p.failedTasks
                  \o [k \in DOMAIN p.resolvedTasks |->
                        ExecutionResult(p.resolvedTasks[k], p.runs[k])])

\* (variant: the session of every resolved task is destroyed)
CleanupIds_everyTask(p) ==
  [k \in DOMAIN p.resolvedTasks |-> p.resolvedTasks[k].sessionId]

\* the ids handed to pool.destroySession
CleanupIds(p) == p.createdSessionIds

\* destroyCreatedSessions && createdSessionIds.length > 0
Cleans(p) == p.destroyCreatedSessions /\ Len(p.createdSessionIds) > 0

\* pool.destroySession(id) up to its awaited close, for every id in turn
RECURSIVE DestroyHeads(_, _, _, _)
DestroyHeads(ids, m, gs, w) ==
  IF ids = <<>> THEN w
  ELSE DestroyHeads(Tail(ids), m, gs,
         IF ~MapHas(m, Head(ids))
         THEN [w EXCEPT !.destroys =
                 Append(@, [id |-> Head(ids), pc |-> "returned", session |-> 0])]
         ELSE [destroys |-> Append(w.destroys, [id |-> Head(ids), pc |-> "closing",
                                                session |-> m[Head(ids)]]),
               drivers |-> QuitSent(w.drivers, gs[m[Head(ids)]].driver)])

\* (variant: execute goes on as soon as one closure is through)
TasksSettled_any(p) ==
  p.runs = <<>> \/ \E k \in DOMAIN p.runs : p.runs[k].pc = "fulfilled"

\* await Promise.allSettled(taskPromises) is over
TasksSettled(p) == \A k \in DOMAIN p.runs : p.runs[k].pc = "fulfilled"

\* the call runs on for as long as it has nothing to wait for.  w holds the
\* call's record p and the drivers; m and gs are the pool's map and objects.
RECURSIVE Proceed(_, _, _)
Proceed(w, m, gs) ==
  LET p == w.p
  IN IF p.pc = "creating" /\ \A j \in DOMAIN p.creations : CreationSettled(p.creations[j])
     THEN Proceed([w EXCEPT !.p = Phase2(Collect(p, 1), m)], m, gs)
     ELSE IF p.pc = "running" /\ TasksSettled(p)
     THEN LET done == [p EXCEPT !.results = <<TaskResults(p)>>]
          IN IF Cleans(done)
             THEN LET h == DestroyHeads(CleanupIds(done), m, gs,
                                        [destroys |-> <<>>, drivers |-> w.drivers])
                  IN Proceed([p |-> [done EXCEPT !.pc = "cleaning", !.destroys = h.destroys],
                              drivers |-> h.drivers], m, gs)
             ELSE [w EXCEPT !.p = [done EXCEPT !.pc = "returned"]]
     ELSE IF p.pc = "cleaning" /\ \A k \in DOMAIN p.destroys : p.destroys[k].pc = "returned"
     THEN [w EXCEPT !.p.pc = "returned"]
     ELSE w

\* execute(context, { tasks, destroyCreatedSessions }) up to its first await
ExecuteStart(taskList, destroyCreatedSessions) ==
  /\ parallel.pc = "idle"
  /\ LET ph1 == Phase1(taskList, 1, sessions,
                       [resolvedTasks |-> <<>>, failedTasks |-> <<>>,
                        needsNewSession |-> <<>>])
         n == Len(ph1.needsNewSession)
         p == [pc |-> "creating", tasks |-> taskList,
               destroyCreatedSessions |-> destroyCreatedSessions,
               registered |-> sessions,
               needsNewSession |-> ph1.needsNewSession,
               creations |-> [j \in 1..n |-> Creation(j, sessionCounter, sessions)],
               resolvedTasks |-> ph1.resolvedTasks,
               failedTasks |-> ph1.failedTasks,
               createdSessionIds |-> <<>>, runs |-> <<>>, destroys |-> <<>>,
               results |-> <<>>]
         w == Proceed([p |-> p, drivers |-> drivers], sessions, gsessions)
     IN /\ parallel' = w.p
        /\ drivers' = w.drivers
        /\ sessionCounter' = sessionCounter + n
        /\ issued' = issued \o [j \in 1..n |->
                                  [n |-> sessionCounter + j, id |-> AutoId(sessionCounter + j)]]
  /\ UNCHANGED <<sessions, gsessions, calls, ncalls>>
  /\ UNCHANGED <<exploreVars, activeSessionId>>

\* a creation closure settles: the pool and the call's record afterwards
CreationStep(j, pc, m, gs, ds, d, reason) ==
  LET p == [parallel EXCEPT !.creations[j].pc = pc, !.creations[j].driver = d,
                            !.creations[j].reason = reason]
      w == Proceed([p |-> p, drivers |-> ds], m, gs)
  IN /\ parallel' = w.p
     /\ drivers' = w.drivers
     /\ sessions' = m
     /\ gsessions' = gs
     /\ UNCHANGED <<sessionCounter, calls, ncalls, issued>>
     /\ UNCHANGED <<exploreVars, activeSessionId>>

\* new GridSession(id, driver, browserName, tags); this.sessions.set(id, session)
CreationRegister(j, d, ds) ==
  LET s == Len(gsessions) + 1
      id == parallel.creations[j].id
  IN CreationStep(j, "fulfilled", MapSet(sessions, id, s),
                  Append(gsessions, GridSession(id, d, parallel.needsNewSession[j].tags)),
                  ds, d, <<>>)

Creating(j) ==
  /\ parallel.pc = "creating"
  /\ j \in DOMAIN parallel.creations

\* await builder.build() resolved, in the createSession of needsNewSession[j]
ParallelBuildOk(j, stealth) ==
  /\ Creating(j) /\ parallel.creations[j].pc = "building"
  /\ IF stealth
     THEN CreationStep(j, "stealth", sessions, gsessions, Append(drivers, NewDriver),
                       Len(drivers) + 1, <<>>)
     ELSE CreationRegister(j, Len(drivers) + 1, Append(drivers, NewDriver))

\* await builder.build() rejected
ParallelBuildFail(j) ==
  /\ Creating(j) /\ parallel.creations[j].pc = "building"
  /\ CreationStep(j, "rejected", sessions, gsessions, drivers, 0, <<BuildError>>)

\* await applyStealthScripts(...) resolved
ParallelStealthOk(j) ==
  /\ Creating(j) /\ parallel.creations[j].pc = "stealth"
  /\ CreationRegister(j, parallel.creations[j].driver, drivers)

\* await applyStealthScripts(...) rejected
ParallelStealthFail(j) ==
  /\ Creating(j) /\ parallel.creations[j].pc = "stealth"
  /\ CreationStep(j, "rejected", sessions, gsessions, drivers,
                  parallel.creations[j].driver, <<StealthError>>)

\* the awaited tool.execute of resolvedTasks[k] settled
ParallelStep(k, outcome) ==
  /\ parallel.pc = "running"
  /\ k \in DOMAIN parallel.runs /\ parallel.runs[k].pc = "awaiting"
  /\ outcome \in ToolOutcomes(parallel.resolvedTasks[k].steps[parallel.runs[k].i],
                              Usable(parallel.runs[k].session, gsessions, drivers))
  /\ LET p == [parallel EXCEPT !.runs[k] =
                  SettleStep(@, parallel.resolvedTasks[k].steps, outcome)]
         w == Proceed([p |-> p, drivers |-> drivers], sessions, gsessions)
     IN /\ parallel' = w.p
        /\ drivers' = w.drivers
  /\ UNCHANGED <<sessions, sessionCounter, gsessions, calls, ncalls, issued>>
  /\ UNCHANGED <<exploreVars, activeSessionId>>

\* the awaited close of the k-th destroySession settled: the entry is
\* deleted
ParallelDestroySettle(k, ok, gone) ==
  /\ parallel.pc = "cleaning"
  /\ k \in DOMAIN parallel.destroys /\ parallel.destroys[k].pc = "closing"
  /\ LET s == parallel.destroys[k].session
         m == IF CloseReturns(ok)
              THEN DestroyRemoves(sessions, parallel.destroys[k].id, ok)
              ELSE sessions
         gs == CloseFinish(gsessions, s)
         p == [parallel EXCEPT !.destroys[k].pc = "returned"]
         w == Proceed([p |-> p,
                       drivers |-> QuitSettled(drivers, gsessions[s].driver, ok, gone)],
                      m, gs)
     IN /\ parallel' = w.p
        /\ drivers' = w.drivers
        /\ sessions' = m
        /\ gsessions' = gs
  /\ UNCHANGED <<sessionCounter, calls, ncalls, issued>>
  /\ UNCHANGED <<exploreVars, activeSessionId>>

\* tasks of a call: on a new session (A, B with a nested parallel_execute, E
\* with a tool that is not registered) and on the sessions s1 (C, F with a
\* nested batch_execute) and grid-1 (D)
TaskA == ParallelTask(<<>>, {}, <<"take_screenshot", "session_list">>)
TaskB == ParallelTask(<<>>, {"a", "b"},
                      <<"take_screenshot", "parallel_execute", "session_list">>)
TaskC == ParallelTask(<<"s1">>, {}, <<"session_list", "take_screenshot">>)
TaskD == ParallelTask(<<"grid-1">>, {}, <<"take_screenshot">>)
TaskE == ParallelTask(<<>>, {}, <<"no_such_tool", "take_screenshot">>)
TaskF == ParallelTask(<<"s1">>, {}, <<"batch_execute", "session_list">>)

TaskShapes == {TaskA, TaskB, TaskC, TaskD, TaskE, TaskF}

\* the tasks arguments: one task, two tasks, and two lists of three
ParallelTaskLists ==
  {<<t>> : t \in TaskShapes}
  \cup {<<t, u>> : t \in TaskShapes, u \in TaskShapes}
  \cup {<<TaskA, TaskD, TaskC>>, <<TaskC, TaskB, TaskA>>}

\* createSession calls with an explicit id before the execute call
PoolCallsBefore == Cardinality(ExplicitIds)

\* sessions s1 and grid-1 are created or not, then one execute call runs
NextParallel ==
  \/ \E x \in ExplicitIds :
       parallel.pc = "idle" /\ CreateSessionStart(1, PoolCallsBefore, <<x>>)
  \/ BuildOk(1, FALSE, {})
  \/ BuildFail(1)
  \/ \E ts \in ParallelTaskLists, d \in BOOLEAN :
       ~InFlight(calls[1]) /\ ExecuteStart(ts, d)
  \/ \E j \in 1..3, st \in BOOLEAN : ParallelBuildOk(j, st)
  \/ \E j \in 1..3 : ParallelBuildFail(j)
  \/ \E j \in 1..3 : ParallelStealthOk(j)
  \/ \E j \in 1..3 : ParallelStealthFail(j)
  \/ \E k \in 1..3, o \in Outcomes : ParallelStep(k, o)
  \/ \E k \in 1..3, ok \in BOOLEAN, gone \in BOOLEAN : ParallelDestroySettle(k, ok, gone)

SpecParallel == Init /\ [][NextParallel]_vars

(***************************************************************************)
(* Properties of the pool.                                                 *)
(***************************************************************************)
\* the step in which caller c invokes the pool
Starts(c) == ncalls' = ncalls + 1 /\ calls'[c].no = ncalls'

\* the step in which caller c's awaited call makes progress
Steps(c) == InFlight(calls[c]) /\ calls'[c] # calls[c]

Registered(m, gs) == [id \in DOMAIN m |-> gs[m[id]]]

\* C4: createSession with an explicit id that is registered when the call is
\* made fails with the duplicate-session error in that very step: no build
\* is started, no browser is added, and the pool holds the same sessions.
C4_DuplicateIdRejected ==
  [][\A c \in Callers :
       (Starts(c) /\ calls'[c].kind = "create" /\ MapHas(sessions, calls'[c].id))
       => /\ calls'[c].pc = "threw"
          /\ calls'[c].err = "duplicate"
          /\ sessions' = sessions
          /\ gsessions' = gsessions
          /\ drivers' = drivers]_vars

C4_Witness ==
  \E c \in Callers :
    /\ calls[c].kind = "create" /\ calls[c].err = "duplicate"
    /\ calls[c].id \in ExplicitIds
    /\ MapHas(sessions, calls[c].id)
    /\ Cardinality(DOMAIN sessions) = 1

\* C5: a createSession call passes the uniqueness check whenever its id is
\* not registered at the moment of the call, also while another call with
\* the same id awaits its creation, and a call that passed the check never
\* fails as a duplicate afterwards: when its creation succeeds it registers
\* its own session under the id and returns it.
C5_OverlappingCreatesBothPass ==
  [][\A c \in Callers :
       /\ (Starts(c) /\ calls'[c].kind = "create" /\ ~MapHas(sessions, calls'[c].id))
          => calls'[c].pc = "building"
       /\ (Steps(c) /\ calls[c].kind = "create")
          => /\ calls'[c].err # "duplicate"
             /\ calls'[c].pc = "returned"
                => /\ MapHas(sessions', calls[c].id)
                   /\ sessions'[calls[c].id] = calls'[c].session]_vars

\* two calls with one explicit id have both returned a session, and both
\* browsers run untouched
C5_Witness ==
  \E c1, c2 \in Callers :
    /\ c1 # c2
    /\ calls[c1].kind = "create" /\ calls[c1].pc = "returned"
    /\ calls[c2].kind = "create" /\ calls[c2].pc = "returned"
    /\ calls[c1].id = calls[c2].id
    /\ calls[c1].id \in ExplicitIds
    /\ calls[c1].session # calls[c2].session
    /\ \A c \in {c1, c2} :
         /\ drivers[gsessions[calls[c].session].driver].state = "live"
         /\ ~drivers[gsessions[calls[c].session].driver].quitCalled

\* C6: the ids createSession generates are grid-N with N strictly
\* increasing in the order of generation, so none is generated twice.
C6_AutoIdsStrictlyIncrease ==
  \A k \in DOMAIN issued :
    /\ issued[k].id = AutoId(issued[k].n)
    /\ \A l \in DOMAIN issued :
         k < l => /\ issued[k].n < issued[l].n
                  /\ issued[k].id # issued[l].id

\* a second id is generated after the session of the first was destroyed
C6_Witness ==
  /\ Len(issued) >= 2
  /\ ~MapHas(sessions, issued[1].id)
  /\ \E s \in DOMAIN gsessions :
       /\ gsessions[s].sessionId = issued[1].id
       /\ drivers[gsessions[s].driver].quitCalled

\* C7: (one caller) destroySession goes on to close and returns true exactly
\* when the id is registered at the call, and the id is absent when it
\* returns; for an unregistered id, and so for a repeated call, it returns
\* false at once and changes nothing; it never throws.
C7_DestroySessionIdempotent ==
  [][/\ (Starts(1) /\ calls'[1].kind = "destroy")
        => /\ MapHas(sessions, calls'[1].id) <=> calls'[1].pc = "closing"
           /\ ~MapHas(sessions, calls'[1].id)
              => /\ calls'[1].pc = "returned" /\ ~calls'[1].ret
                 /\ UNCHANGED <<sessions, gsessions, drivers>>
           /\ (calls[1].kind = "destroy" /\ calls[1].id = calls'[1].id)
              => /\ calls'[1].pc = "returned" /\ ~calls'[1].ret
                 /\ UNCHANGED <<sessions, gsessions, drivers>>
     /\ (Steps(1) /\ calls[1].kind = "destroy")
        => /\ calls'[1].pc = "returned" /\ calls'[1].ret
           /\ ~MapHas(sessions', calls[1].id)
     /\ (calls'[1].kind = "destroy" /\ calls'[1].pc = "returned" /\ calls'[1].ret)
        => Steps(1) \/ calls'[1] = calls[1]]_vars

\* the same id is destroyed twice in a row: true, then false
C7_Witness ==
  /\ calls[1].kind = "destroy" /\ calls[1].pc = "returned" /\ ~calls[1].ret
  /\ calls[1].no >= 3
  /\ \E s \in DOMAIN gsessions :
       /\ gsessions[s].sessionId = calls[1].id
       /\ drivers[gsessions[s].driver].quitCalled

\* C8: when the awaited quit fails (the browser is still there afterwards),
\* close() still completes with the snapshot cleared, and destroySession
\* still deletes the entry and returns true instead of throwing.
C8_CloseErrorSwallowed ==
  [][\A c \in Callers :
       (/\ Steps(c) /\ calls[c].kind = "destroy"
        /\ drivers'[gsessions[calls[c].session].driver].state = "live")
       => /\ calls'[c].pc = "returned" /\ calls'[c].ret
          /\ calls'[c].err = ""
          /\ gsessions'[calls[c].session].snapshot = <<>>
          /\ ~MapHas(sessions', calls[c].id)]_vars

C8_Witness ==
  \E c \in Callers :
    /\ calls[c].kind = "destroy" /\ calls[c].pc = "returned" /\ calls[c].ret
    /\ drivers[gsessions[calls[c].session].driver].state = "live"
    /\ gsessions[calls[c].session].snapshot = <<>>
    /\ ~MapHas(sessions, calls[c].id)

\* C9: (one caller) every step of destroyAll removes as many entries as it
\* adds to the count, whether the quit succeeded or failed, and when the
\* call returns every selected session has been quit, cleared and removed
\* and the count is their number.
C9_DestroyAllIsolatesCloseFailures ==
  [][(calls'[1].kind = "destroyAll" /\ (Starts(1) \/ Steps(1)))
     => /\ Cardinality(DOMAIN sessions) - Cardinality(DOMAIN sessions')
             = calls'[1].count - (IF Starts(1) THEN 0 ELSE calls[1].count)
        /\ calls'[1].pc = "returned"
           => /\ calls'[1].count = Cardinality(DOMAIN calls'[1].toDestroy)
              /\ \A id \in DOMAIN calls'[1].toDestroy :
                   /\ ~MapHas(sessions', id)
                   /\ gsessions'[calls'[1].toDestroy[id]].snapshot = <<>>
                   /\ drivers'[gsessions'[calls'[1].toDestroy[id]].driver].quitCalled]_vars

\* two sessions destroyed by one call: the quit of one failed, the other
\* browser is gone
C9_Witness ==
  /\ calls[1].kind = "destroyAll" /\ calls[1].pc = "returned"
  /\ calls[1].count = 2
  /\ \E i, j \in DOMAIN calls[1].toDestroy :
       /\ drivers[gsessions[calls[1].toDestroy[i]].driver].state = "live"
       /\ drivers[gsessions[calls[1].toDestroy[j]].driver].state = "closed"

\* the sessions a tags argument selects
Selected(targ) ==
  IF Len(targ) = 0 \/ targ[1] = {}
  THEN DOMAIN sessions
  ELSE {id \in DOMAIN sessions :
          \E t \in targ[1] : t \in gsessions[sessions[id]].tags}

\* C10: (one caller) destroyAll selects exactly the sessions sharing a tag
\* with a non-empty tags argument, and all sessions when it is absent or
\* empty; no step of the call touches another session's entry or browser,
\* and the call returns with exactly the selected entries removed (with
\* nothing selected: 0, and the pool unchanged).
C10_DestroyAllByTags ==
  [][(calls'[1].kind = "destroyAll" /\ (Starts(1) \/ Steps(1)))
     => /\ Starts(1) => DOMAIN calls'[1].toDestroy = Selected(calls'[1].targ)
        /\ \A id \in DOMAIN sessions \ DOMAIN calls'[1].toDestroy :
             /\ MapHas(sessions', id) /\ sessions'[id] = sessions[id]
             /\ drivers'[gsessions[sessions[id]].driver]
                  = drivers[gsessions[sessions[id]].driver]
        /\ calls'[1].pc = "returned"
           => /\ DOMAIN sessions' \cap DOMAIN calls'[1].toDestroy = {}
              /\ calls'[1].count = Cardinality(DOMAIN calls'[1].toDestroy)
        /\ (Starts(1) /\ Selected(calls'[1].targ) = {})
           => /\ calls'[1].pc = "returned" /\ calls'[1].count = 0
              /\ UNCHANGED <<sessions, gsessions, drivers>>]_vars

\* a tag list that shares one tag with one session and none with the other
C10_Witness ==
  /\ calls[1].kind = "destroyAll" /\ calls[1].pc = "returned"
  /\ calls[1].targ = <<{"a", "c"}>>
  /\ calls[1].count = 1
  /\ \E id \in DOMAIN sessions :
       /\ gsessions[sessions[id]].tags = {}
       /\ ~drivers[gsessions[sessions[id]].driver].quitCalled

\* the automation handle of session s is neither closing nor closed
HandleOpen(s) ==
  /\ ~drivers[gsessions[s].driver].quitCalled
  /\ drivers[gsessions[s].driver].state = "live"

\* C11: an entry enters the map only in the step in which a createSession
\* call returns after its browser was created, an entry leaves the map only
\* while quit has not yet been sent to its browser, and so getSession and
\* listSessions only ever return sessions whose handle is neither closing
\* nor closed.
C11_MapHidesClosingSessions ==
  /\ [][(\A id \in DOMAIN sessions' :
            (~MapHas(sessions, id) \/ sessions'[id] # sessions[id])
            => \E c \in Callers :
                 /\ calls[c].kind = "create" /\ InFlight(calls[c])
                 /\ calls[c].id = id
                 /\ calls'[c].pc = "returned"
                 /\ calls'[c].session = sessions'[id]
                 /\ drivers'[gsessions'[sessions'[id]].driver].state = "live")
         /\ (\A id \in DOMAIN sessions :
               ~MapHas(sessions', id)
               => ~drivers[gsessions[sessions[id]].driver].quitCalled)]_vars
  /\ [](/\ \A id \in DOMAIN sessions \cup ExplicitIds :
             getSession(id) # <<>> => HandleOpen(getSession(id)[1])
         /\ \A targ \in TagArgs :
             \A s \in listSessions(targ) : HandleOpen(s))

(***************************************************************************)
(* Properties of the calls on a session.                                   *)
(***************************************************************************)
IsElementNotFound(err) == err \in {RefNotFound, CouldNotFind}

\* the ids of the elements the document shows
Shown(page) == {PageElements(page)[k] : k \in DOMAIN PageElements(page)}

\* the step in which the getElementByRef call of caller 1 looks the ref up:
\* its first step when a snapshot is cached, else the end of its capture
LooksUp ==
  \/ /\ Starts(1) /\ calls'[1].kind = "getElement"
     /\ gsessions[calls'[1].session].snapshot # <<>>
  \/ /\ Steps(1) /\ calls[1].kind = "getElement" /\ calls[1].pc = "capElements"
     /\ calls'[1].err # RemoteError

\* C12 as claimed: getElementByRef never captures a snapshot itself, a call
\* made while no snapshot is cached never returns an element, and a call
\* whose ref is not in the snapshot or whose descriptor no strategy matches
\* on the live page ends in an element-not-found error.
C12_NoSnapshotNoElement ==
  /\ [][/\ ((Starts(1) \/ Steps(1)) /\ calls'[1].kind = "getElement")
           => gsessions' = gsessions
        /\ (LooksUp /\ calls'[1].ref \notin
                         DOMAIN gsessions'[calls'[1].session].snapshot[1].elements)
           => calls'[1].pc = "threw" /\ IsElementNotFound(calls'[1].err)
        /\ (/\ Steps(1) /\ calls[1].kind = "getElement" /\ calls[1].pc = "finding"
            /\ calls'[1].err # RemoteError
            /\ calls[1].info[1] \notin
                  Shown(drivers[gsessions[calls[1].session].driver].page))
           => calls'[1].pc = "threw" /\ IsElementNotFound(calls'[1].err)]_vars
  /\ []((calls[1].kind = "getElement" /\ calls[1].captured)
        => calls[1].pc # "returned")

\* C12, amended: a getElementByRef call made while no snapshot is cached
\* first captures one (and only then); with the snapshot it looks the ref
\* up and fails with the ref-not-found error when the ref is not in it;
\* otherwise it runs the locator script and fails with could-not-find when
\* the remembered element is not on the live page, and returns that
\* element's handle when it is.  Besides these two errors only a failed
\* remote call ends the call.
C12_ImplicitCaptureThenLookup ==
  [][/\ (Starts(1) /\ calls'[1].kind = "getElement")
        => /\ gsessions[calls'[1].session].snapshot = <<>>
              <=> calls'[1].pc = "capUrl"
           /\ gsessions' = gsessions
     /\ (Steps(1) /\ calls[1].kind = "getElement")
        => /\ (gsessions' # gsessions)
              => (calls[1].pc = "capElements" /\ calls[1].captured)
           /\ (calls'[1].pc = "threw")
              => calls'[1].err \in {RefNotFound, CouldNotFind, RemoteError}
     /\ LooksUp
        => LET elements == gsessions'[calls'[1].session].snapshot[1].elements
           IN IF calls'[1].ref \in DOMAIN elements
              THEN /\ calls'[1].pc = "finding"
                   /\ calls'[1].info = <<elements[calls'[1].ref]>>
              ELSE calls'[1].pc = "threw" /\ calls'[1].err = RefNotFound
     /\ (/\ Steps(1) /\ calls[1].kind = "getElement" /\ calls[1].pc = "finding"
         /\ calls'[1].err # RemoteError)
        => LET page == drivers[gsessions[calls[1].session].driver].page
           IN IF calls[1].info[1] \in Shown(page)
              THEN /\ calls'[1].pc = "returned"
                   /\ calls'[1].element = <<[page |-> page, el |-> calls[1].info[1]]>>
              ELSE calls'[1].pc = "threw" /\ calls'[1].err = CouldNotFind]_vars

\* a call made while no snapshot was cached returned an element
C12_Witness ==
  /\ calls[1].kind = "getElement" /\ calls[1].pc = "returned"
  /\ calls[1].captured
  /\ calls[1].element # <<>>
  /\ gsessions[calls[1].session].snapshot # <<>>

(***************************************************************************)
(* Properties of explore.                                                  *)
(***************************************************************************)
\* C1: explore returns one result per target, and getResult finds each
\* returned result under that result's explorationId.
C1_EveryResultRetrievable ==
  returned # <<>>
  => /\ Len(returned[1]) = Len(tasks)
     /\ \A k \in DOMAIN returned[1] :
          getResult(returned[1][k].explorationId) = <<returned[1][k]>>

\* the target of a closure failed: it was rejected, or the catch block ran
Failed(t) == t.reason # <<>> \/ t.caught # <<>>

\* C2: the step in which one target fails changes no other closure and no
\* other target's stored record, and when explore returns, every target
\* that did not fail itself has the result its own crawl gives, returned at
\* its index and stored under its id.
C2_TargetsIsolated ==
  /\ [][explorationCounter' = explorationCounter
        => \A i \in DOMAIN tasks :
             (Failed(tasks'[i]) /\ ~Failed(tasks[i]))
             => \A j \in DOMAIN tasks \ {i} :
                  /\ tasks'[j] = tasks[j]
                  /\ MapHas(results', tasks[j].explorationId)
                       <=> MapHas(results, tasks[j].explorationId)
                  /\ MapHas(results, tasks[j].explorationId)
                       => results'[tasks[j].explorationId]
                            = results[tasks[j].explorationId]]_vars
  /\ [](returned # <<>>
        => \A j \in DOMAIN tasks :
             ~Failed(tasks[j])
             => /\ returned[1][j] =
                     [explorationId |-> tasks[j].explorationId,
                      target |-> tasks[j].target,
                      sessionId |-> SessionIdOf(tasks[j].explorationId),
                      status |-> IF RunCrawl(CrawlStart(tasks[j].target.url),
                                             MaxDepthOf(tasks[j].target),
                                             MaxPagesOf(tasks[j].target),
                                             tasks[j].fails) = <<>>
                                 THEN "partial" ELSE "completed",
                      error |-> <<>>,
                      pages |-> RunCrawl(CrawlStart(tasks[j].target.url),
                                         MaxDepthOf(tasks[j].target),
                                         MaxPagesOf(tasks[j].target),
                                         tasks[j].fails)]
                /\ getResult(tasks[j].explorationId) = <<returned[1][j]>>)

\* one target's session could not be created, the other target's crawl
\* captured its pages
C2_Witness ==
  /\ returned # <<>>
  /\ \E i, j \in DOMAIN tasks :
       /\ tasks[i].pc = "rejected"
       /\ ~Failed(tasks[j])
       /\ Len(returned[1][j].pages) >= 2

\* C3: of a returned result, the status is completed iff the crawl captured
\* a page, partial iff nothing threw and no page was captured, failed iff
\* session creation, authentication or the crawl threw; a failed result
\* has no pages and a non-empty error message.
C3_StatusMatchesOutcome ==
  returned # <<>>
  => \A i \in DOMAIN tasks :
       LET r == returned[1][i]
           captured == Len(tasks[i].crawl.pages)
       IN /\ r.status \in {"completed", "partial", "failed"}
          /\ r.status = "completed" <=> captured >= 1
          /\ r.status = "partial" <=> (~Failed(tasks[i]) /\ captured = 0)
          /\ r.status = "failed" <=> Failed(tasks[i])
          /\ r.status = "failed"
             => /\ r.pages = <<>>
                /\ r.error # <<>>
                /\ r.error[1] # ""
          /\ r.status # "failed" => Len(r.pages) = captured

\* one target ended partial, one failed
C3_Witness ==
  /\ returned # <<>>
  /\ \E i, j \in DOMAIN tasks :
       /\ returned[1][i].status = "partial"
       /\ returned[1][j].status = "failed"
       /\ tasks[j].pc = "rejected"

(***************************************************************************)
(* Properties of a crawl.                                                  *)
(***************************************************************************)
KeysOf(entries) == [k \in DOMAIN entries |-> normalizeUrl(entries[k].url)]

NavigatedKeys(cr) == [k \in DOMAIN cr.navigated |-> normalizeUrl(cr.navigated[k])]

Distinct(seq) == \A i, j \in DOMAIN seq : i < j => seq[i] # seq[j]

\* the step is an iteration of the loop of task i
Iterates(i) ==
  /\ i \in DOMAIN tasks /\ i \in DOMAIN tasks'
  /\ tasks[i].pc = "crawl" /\ tasks'[i].crawl # tasks[i].crawl

\* the entries an iteration pushed on the queue
Pushed(before, after) == SubSeq(after.queue, Len(before.queue), Len(after.queue))

\* an iteration never pushes a URL whose key is visited, and no key is
\* navigated to twice
NeverAgain ==
  /\ [][\A i \in DOMAIN tasks :
          Iterates(i)
          => LET pushed == Pushed(tasks[i].crawl, tasks'[i].crawl)
             IN \A k \in DOMAIN pushed :
                  normalizeUrl(pushed[k].url) \notin tasks'[i].crawl.visited]_vars
  /\ [](\A i \in DOMAIN tasks : Distinct(NavigatedKeys(tasks[i].crawl)))

\* C13 as claimed: a URL whose key is visited is never pushed on the queue
\* and never navigated to again, and no key is in the queue twice.
C13_EachKeyOnceInQueue ==
  /\ NeverAgain
  /\ [](\A i \in DOMAIN tasks : Distinct(KeysOf(tasks[i].crawl.queue)))

\* C13, amended: a URL whose key is visited is never pushed on the queue and
\* no key is navigated to twice; a queue entry whose key was visited in the
\* meantime is dropped when it is dequeued: nothing is navigated to,
\* captured or pushed in that iteration.
C13_VisitedKeyNeverAgain ==
  /\ NeverAgain
  /\ [][\A i \in DOMAIN tasks :
          (Iterates(i) /\ normalizeUrl(Head(tasks[i].crawl.queue).url)
                            \in tasks[i].crawl.visited)
          => tasks'[i].crawl = [tasks[i].crawl EXCEPT !.queue = Tail(@)]]_vars

\* a key sat in the queue twice, and its second entry is at the head after
\* the first was navigated to
C13_Witness ==
  \E i \in DOMAIN tasks :
    /\ tasks[i].pc = "crawl"
    /\ Len(tasks[i].crawl.pages) >= 2
    /\ tasks[i].crawl.queue # <<>>
    /\ normalizeUrl(Head(tasks[i].crawl.queue).url) \in tasks[i].crawl.visited
    /\ Head(tasks[i].crawl.queue).url \notin
         {tasks[i].crawl.navigated[k] : k \in DOMAIN tasks[i].crawl.navigated}

\* pages is within the limits of target t
WithinLimits(pages, t) ==
  /\ Len(pages) <= MaxPagesOf(t)
  /\ \A k \in DOMAIN pages : pages[k].depth <= MaxDepthOf(t)

\* C14: at every point of a crawl the captured pages are at most maxPages
\* and each has depth at most maxDepth, and so has the result the target
\* returns and stores; with maxDepth = 0 nothing but the start URL is ever
\* navigated to.
C14_WithinBudgetAndDepth ==
  \A i \in DOMAIN tasks :
    LET t == tasks[i].target
        cr == tasks[i].crawl
    IN /\ WithinLimits(cr.pages, t)
       /\ MaxDepthOf(t) = 0
          => \A k \in DOMAIN cr.navigated : cr.navigated[k] = t.url
       /\ tasks[i].value # <<>> => WithinLimits(tasks[i].value[1].pages, t)
       /\ MapHas(results, tasks[i].explorationId)
          => WithinLimits(results[tasks[i].explorationId].pages, t)
       /\ returned # <<>> => WithinLimits(returned[1][i].pages, t)

\* a crawl that stopped at its page budget with URLs left in the queue and
\* captured a page at its depth limit
C14_Witness ==
  /\ returned # <<>>
  /\ \E i \in DOMAIN tasks :
       /\ Len(returned[1][i].pages) = MaxPagesOf(tasks[i].target)
       /\ MaxPagesOf(tasks[i].target) >= 2
       /\ tasks[i].crawl.queue # <<>>
       /\ \E k \in DOMAIN returned[1][i].pages :
            returned[1][i].pages[k].depth = MaxDepthOf(tasks[i].target)

\* the step is an iteration of task i that captured a page
Captures(i) ==
  /\ Iterates(i)
  /\ Len(tasks'[i].crawl.pages) = Len(tasks[i].crawl.pages) + 1

\* the page an iteration captured
Captured(i) == tasks'[i].crawl.pages[Len(tasks'[i].crawl.pages)]

\* a link that is followed: internal, http(s), its key not visited
Followed(link, visited) ==
  /\ link.isInternal
  /\ IsHttp(link.href)
  /\ normalizeUrl(link.href) \notin visited

\* the entries for the followed links of a page, in the order of the links
RECURSIVE EntriesFor(_, _, _)
EntriesFor(links, visited, depth) ==
  IF links = <<>> THEN <<>>
  ELSE (IF Followed(Head(links), visited)
        THEN <<[url |-> Head(links).href, depth |-> depth]>>
        ELSE <<>>) \o EntriesFor(Tail(links), visited, depth)

\* C15 as claimed: the iteration that captures a page pushes entries only
\* when the page's depth is below maxDepth and fewer than maxPages pages
\* are captured by then; otherwise it pushes nothing.
C15_EnqueueWithinDepthAndBudget ==
  [][\A i \in DOMAIN tasks :
       Captures(i)
       => LET pushed == Pushed(tasks[i].crawl, tasks'[i].crawl)
              within == /\ Captured(i).depth < MaxDepthOf(tasks[i].target)
                        /\ Len(tasks'[i].crawl.pages) < MaxPagesOf(tasks[i].target)
          IN /\ pushed # <<>> => within
             /\ ~within => tasks'[i].crawl.queue = Tail(tasks[i].crawl.queue)
             /\ \A k \in DOMAIN pushed : pushed[k].depth = Captured(i).depth + 1]_vars

\* C15, amended: the iteration that captures a page of depth below maxDepth
\* pushes, at depth+1 and in the order of the links, exactly the page's
\* links that are internal, http(s) and not visited, whether or not the
\* page budget is used up by then; from a page at maxDepth it pushes
\* nothing.  The budget is tested before each iteration only: no iteration
\* runs once maxPages pages are captured.
C15_EnqueueWithinDepth ==
  [][\A i \in DOMAIN tasks :
       /\ Captures(i)
          => Pushed(tasks[i].crawl, tasks'[i].crawl) =
               IF Captured(i).depth < MaxDepthOf(tasks[i].target)
               THEN EntriesFor(Captured(i).links, tasks'[i].crawl.visited,
                               Captured(i).depth + 1)
               ELSE <<>>
       /\ Iterates(i)
          => Len(tasks[i].crawl.pages) < MaxPagesOf(tasks[i].target)]_vars

\* a crawl ended by its budget: the page that used the budget up pushed
\* its links, and they were never navigated to
C15_Witness ==
  \E i \in DOMAIN tasks :
    LET cr == tasks[i].crawl
    IN /\ tasks[i].pc = "fulfilled"
       /\ Len(cr.pages) = MaxPagesOf(tasks[i].target)
       /\ \E k \in DOMAIN cr.queue :
            /\ cr.queue[k].depth = cr.pages[Len(cr.pages)].depth + 1
            /\ cr.queue[k].url \in
                 {cr.pages[Len(cr.pages)].links[l].href :
                    l \in DOMAIN cr.pages[Len(cr.pages)].links}
            /\ normalizeUrl(cr.queue[k].url) \notin cr.visited

\* the pages driver.get and the extraction calls give for a list of URLs,
\* those that fail left out
RECURSIVE LoadedOf(_, _)
LoadedOf(urls, fails) ==
  IF urls = <<>> THEN <<>>
  ELSE (IF Head(urls) \in DOMAIN SitePages /\ Head(urls) \notin fails
        THEN <<SitePages[Head(urls)].currentUrl>>
        ELSE <<>>) \o LoadedOf(Tail(urls), fails)

PageUrls(pages) == [k \in DOMAIN pages |-> pages[k].url]

\* C16: the iteration in which a page fails to load captures nothing, keeps
\* the pages captured so far and the rest of the queue, and leaves the
\* target's closure running and not failed; the crawl then goes on until
\* the queue is empty or the budget is used up, and the result holds
\* exactly the pages that loaded, in the order of navigation, with a status
\* other than failed.
C16_PageFailureSkipped ==
  /\ [][\A i \in DOMAIN tasks :
          (/\ Iterates(i)
           /\ normalizeUrl(Head(tasks[i].crawl.queue).url) \notin tasks[i].crawl.visited
           /\ Head(tasks[i].crawl.queue).url \in tasks[i].fails)
          => /\ tasks'[i].crawl.pages = tasks[i].crawl.pages
             /\ tasks'[i].crawl.queue = Tail(tasks[i].crawl.queue)
             /\ tasks'[i].crawl.navigated =
                  Append(tasks[i].crawl.navigated, Head(tasks[i].crawl.queue).url)
             /\ tasks'[i].pc = "crawl"
             /\ ~Failed(tasks'[i])]_vars
  /\ [](returned # <<>>
        => \A i \in DOMAIN tasks :
             ~Failed(tasks[i])
             => /\ returned[1][i].status # "failed"
                /\ returned[1][i].error = <<>>
                /\ PageUrls(returned[1][i].pages) =
                     LoadedOf(tasks[i].crawl.navigated, tasks[i].fails)
                /\ \/ tasks[i].crawl.queue = <<>>
                   \/ Len(returned[1][i].pages) >= MaxPagesOf(tasks[i].target))

\* a page failed between two pages that were captured
C16_Witness ==
  /\ returned # <<>>
  /\ \E i \in DOMAIN tasks :
       LET nav == tasks[i].crawl.navigated
       IN /\ returned[1][i].status = "completed"
          /\ Len(returned[1][i].pages) = 2
          /\ Len(nav) = 3
          /\ nav[2] \in tasks[i].fails

\* the http(s) URLs the internal links among links lead to
Targets(links) ==
  {links[k].href : k \in {l \in DOMAIN links :
                            links[l].isInternal /\ IsHttp(links[l].href)}}

\* every a[href] of the document at u
AllAnchors(u) == IF u \in DOMAIN SitePages THEN SitePages[u].anchors ELSE <<>>

\* the links the crawler is given for the document at u
ReportedLinks(u) == ExtractLinks(AllAnchors(u))

\* the URLs within n links of the URLs in from, by all anchors
RECURSIVE ReachByAnchors(_, _)
ReachByAnchors(from, n) ==
  IF n = 0 THEN from
  ELSE ReachByAnchors(from \cup UNION {Targets(AllAnchors(u)) : u \in from}, n - 1)

\* the URLs within n links of the URLs in from, by the reported links
RECURSIVE ReachByReported(_, _)
ReachByReported(from, n) ==
  IF n = 0 THEN from
  ELSE ReachByReported(from \cup UNION {Targets(ReportedLinks(u)) : u \in from}, n - 1)

KeySet(urls) == {normalizeUrl(u) : u \in urls}

\* no URL of urls redirects, and each has a page at its key
Plain(urls) ==
  /\ \A u \in urls \cap DOMAIN SitePages : SitePages[u].currentUrl = u
  /\ \A u \in urls : \E v \in DOMAIN SitePages : normalizeUrl(v) = normalizeUrl(u)

\* the crawl of task i fulfilled its closure with exactly one page for each
\* key of reach, unless a page failed, one redirected or the budget is
\* smaller than reach
CapturesExactly(i, reach) ==
  (/\ tasks[i].pc = "fulfilled"
   /\ tasks[i].fails = {}
   /\ Plain(reach)
   /\ MaxPagesOf(tasks[i].target) >= Cardinality(KeySet(reach)))
  => /\ KeySet({tasks[i].value[1].pages[k].url :
                  k \in DOMAIN tasks[i].value[1].pages}) = KeySet(reach)
     /\ Len(tasks[i].value[1].pages) = Cardinality(KeySet(reach))

\* C17 as claimed: with no failures, no redirects and budget enough, the
\* crawl captures one page for each URL key within maxDepth internal
\* http(s) anchors of the start URL, and no other page.
C17_CapturesAllReachable ==
  \A i \in DOMAIN tasks :
    CapturesExactly(i, ReachByAnchors({tasks[i].target.url},
                                      MaxDepthOf(tasks[i].target)))

\* C17, amended: with no failures, no redirects and budget enough, the
\* crawl captures one page for each URL key within maxDepth internal
\* http(s) links of the start URL, and no other page, where the links of a
\* page are those the extraction reports for it (its first maxLinks
\* distinct navigable anchors); so the start page /p with two internal
\* links and maxDepth 1 gives 3 pages and the start page /c with none gives
\* 1 page.
C17_CapturesAllReported ==
  \A i \in DOMAIN tasks :
    /\ CapturesExactly(i, ReachByReported({tasks[i].target.url},
                                          MaxDepthOf(tasks[i].target)))
    /\ (/\ tasks[i].pc = "fulfilled" /\ tasks[i].fails = {}
        /\ tasks[i].target.url = UrlP /\ MaxDepthOf(tasks[i].target) = 1
        /\ MaxPagesOf(tasks[i].target) >= 3)
       => Len(tasks[i].value[1].pages) = 3
    /\ (/\ tasks[i].pc = "fulfilled" /\ tasks[i].fails = {}
        /\ tasks[i].target.url = UrlC)
       => Len(tasks[i].value[1].pages) = 1

\* the crawl of a cyclic site from /p, two links deep, has its four pages
C17_Witness ==
  \E i \in DOMAIN tasks :
    /\ tasks[i].pc = "fulfilled"
    /\ tasks[i].fails = {}
    /\ tasks[i].target.url = UrlP
    /\ MaxDepthOf(tasks[i].target) = 2
    /\ KeySet({tasks[i].value[1].pages[k].url :
                 k \in DOMAIN tasks[i].value[1].pages}) = {UrlP, UrlC, UrlD, UrlE}
    /\ Len(tasks[i].value[1].pages) = 4

(***************************************************************************)
(* Properties of normalizeUrl.                                             *)
(***************************************************************************)
Occurrences(q, p) == Cardinality({k \in DOMAIN q : q[k] = p})

\* q1 and q2 hold the same parameters, in any order
SameParams(q1, q2) ==
  /\ Len(q1) = Len(q2)
  /\ \A k \in DOMAIN q1 : Occurrences(q1, q1[k]) = Occurrences(q2, q1[k])

\* u and v differ at most in fragment, trailing slashes and parameter order
DifferOnlyInForm(u, v) ==
  /\ u.scheme = v.scheme /\ u.host = v.host /\ u.path = v.path
  /\ SameParams(u.query, v.query)

\* C18: the key normalizeUrl gives for a URL is a fixed point of
\* normalizeUrl, and it is the key of every URL that differs from that URL
\* only in fragment, trailing slashes or the order of query parameters,
\* for absolute URLs and for paths alike.
C18_NormalizeCanonical ==
  lastCall.op = "normalizeUrl"
  => /\ normalizeUrl(lastCall.value[1]) = lastCall.value[1]
     /\ \A v \in UrlInputs :
          DifferOnlyInForm(lastCall.args[1], v)
          => normalizeUrl(v) = lastCall.value[1]

(***************************************************************************)
(* Properties of merge.                                                    *)
(***************************************************************************)
\* this step is a call of merge
MergeCalled == lastCall' # lastCall /\ lastCall'.op = "merge"

Unknown(ids) == {k \in DOMAIN ids : ~MapHas(results, ids[k])}

\* C19: a call of merge that is given an id the store does not hold throws,
\* whatever the other ids are.
C19_MergeFailsOnUnknownId ==
  [][(MergeCalled /\ Unknown(lastCall'.args) # {})
     => lastCall'.threw # <<>>]_vars

RECURSIVE SumPages(_)
SumPages(explorations) ==
  IF explorations = <<>> THEN 0
  ELSE Len(Head(explorations).pages) + SumPages(Tail(explorations))

PageKeys(explorations) ==
  UNION {{normalizeUrl(explorations[i].pages[j].url) :
            j \in DOMAIN explorations[i].pages} : i \in DOMAIN explorations}

\* C20: in what merge returns, totalPages is the sum of the page counts of
\* the selected results, a result named twice counted twice; uniquePages is
\* the number of distinct normalized URLs among their pages and the length
\* of siteMap; duplicatesRemoved is totalPages - uniquePages and not
\* negative.  One result without pages merges to 0 and 0 without an error;
\* two results holding the same single page merge to 2, 1 and 1.
C20_MergeCounts ==
  [][MergeCalled
     => LET selected == Explorations(results, lastCall'.args)
            r == lastCall'.value[1]
        IN /\ (lastCall'.threw = <<>>)
              => (/\ r.totalPages = SumPages(selected)
                  /\ r.uniquePages = Cardinality(PageKeys(selected))
                  /\ r.uniquePages = Len(r.siteMap)
                  /\ r.duplicatesRemoved = r.totalPages - r.uniquePages
                  /\ r.duplicatesRemoved >= 0)
           /\ (Len(selected) = 1 /\ selected[1].pages = <<>>)
              => (/\ lastCall'.threw = <<>>
                  /\ r.totalPages = 0 /\ r.uniquePages = 0)
           /\ (/\ Len(selected) = 2
               /\ Len(selected[1].pages) = 1
               /\ selected[2].pages = selected[1].pages)
              => (/\ lastCall'.threw = <<>>
                  /\ r.totalPages = 2 /\ r.uniquePages = 1
                  /\ r.duplicatesRemoved = 1)]_vars

\* two explorations that each captured the one page /c were merged
C20_Witness ==
  /\ lastCall.op = "merge" /\ lastCall.threw = <<>>
  /\ lastCall.args = <<ExplorationId(1), ExplorationId(2)>>
  /\ lastCall.value[1].totalPages = 2
  /\ lastCall.value[1].uniquePages = 1
  /\ lastCall.value[1].duplicatesRemoved = 1
  /\ Len(lastCall.value[1].siteMap[1].discoveredBy) = 2

\* the ids of the explorations that hold a page of the key, in the order of
\* the explorations, one for each exploration selected
RECURSIVE Holders(_, _)
Holders(explorations, key) ==
  IF explorations = <<>> THEN <<>>
  ELSE LET e == Head(explorations)
           holds == \E j \in DOMAIN e.pages : normalizeUrl(e.pages[j].url) = key
       IN (IF holds THEN <<e.explorationId>> ELSE <<>>)
          \o Holders(Tail(explorations), key)

\* C21: in what merge returns, the discoveredBy of every siteMap entry lists
\* the ids of the selected explorations that hold a page with the entry's
\* normalized URL, each such id once, in the order the ids were given.
C21_DiscoveredByEachHolderOnce ==
  [][(MergeCalled /\ lastCall'.threw = <<>>)
     => LET selected == Explorations(results, lastCall'.args)
            siteMap == lastCall'.value[1].siteMap
        IN \A k \in DOMAIN siteMap :
             siteMap[k].discoveredBy
               = Holders(selected, normalizeUrl(siteMap[k].url))]_vars

(***************************************************************************)
(* Properties of the store of results and of diff.                         *)
(***************************************************************************)
\* this step is a call of diff
DiffCalled == lastCall' # lastCall /\ lastCall'.op = "diff"

\* C22: a stored result is never changed, removed or overwritten: every id
\* of the store keeps its record in every step, whether a step of explore,
\* a call of merge or a call of diff; merge and diff leave the store as it
\* is.
C22_StoredResultsNeverChange ==
  [][/\ \A id \in DOMAIN results :
          id \in DOMAIN results' /\ results'[id] = results[id]
     /\ (MergeCalled \/ DiffCalled) => results' = results]_vars

\* a result was stored, a second exploration ran to its end and was stored,
\* and diff was called on the two
C22_Witness ==
  /\ Cardinality(DOMAIN results) = 2
  /\ returned # <<>>
  /\ lastCall.op = "diff" /\ lastCall.threw = <<>>
  /\ lastCall.args[1] # lastCall.args[2]

\* the normalized URLs of the pages
UrlKeys(pages) == {normalizeUrl(pages[j].url) : j \in DOMAIN pages}

\* the page that stands for the key: the last one captured
PageOf(pages, key) ==
  LET at == {j \in DOMAIN pages : normalizeUrl(pages[j].url) = key}
  IN pages[CHOOSE j \in at : \A k \in at : k <= j]

Range(seq) == {seq[k] : k \in DOMAIN seq}

\* C23: in what diff returns, added holds the pages whose normalized URL is
\* in current only, removed those whose normalized URL is in baseline only,
\* and changed those in both whose element counts differ, each with
\* elementDiff the count in current less the count in baseline and never 0;
\* no list names a page twice and no URL is in two of the lists.
C23_DiffClassifies ==
  [][(DiffCalled /\ lastCall'.threw = <<>>)
     => LET baseline == results[lastCall'.args[1]].pages
            current == results[lastCall'.args[2]].pages
            r == lastCall'.value[1]
            both == UrlKeys(baseline) \cap UrlKeys(current)
            changedUrls == [k \in DOMAIN r.changed |-> r.changed[k].url]
        IN /\ Range(r.added)
                = {PageOf(current, key).url : key \in UrlKeys(current) \ UrlKeys(baseline)}
           /\ Range(r.removed)
                = {PageOf(baseline, key).url : key \in UrlKeys(baseline) \ UrlKeys(current)}
           /\ Range(r.changed)
                = {[url |-> PageOf(current, key).url,
                    elementDiff |-> PageOf(current, key).elements
                                    - PageOf(baseline, key).elements] :
                     key \in {k \in both : PageOf(current, k).elements
                                            # PageOf(baseline, k).elements}}
           /\ \A k \in DOMAIN r.changed : r.changed[k].elementDiff # 0
           /\ Distinct(r.added \o r.removed \o changedUrls)]_vars

\* a diff that found a page added and a page changed
C23_Witness ==
  /\ lastCall.op = "diff" /\ lastCall.threw = <<>>
  /\ lastCall.value[1].added # <<>>
  /\ lastCall.value[1].changed # <<>>
  /\ lastCall.value[1].changed[1].elementDiff < 0

\* C24: diff of a stored result with itself returns empty added, removed and
\* changed lists, also when the result holds several pages with the same
\* normalized URL.
C24_DiffWithItselfEmpty ==
  [][(DiffCalled /\ lastCall'.args[1] = lastCall'.args[2]
        /\ MapHas(results, lastCall'.args[1]))
     => /\ lastCall'.threw = <<>>
        /\ lastCall'.value[1] = [added |-> <<>>, removed |-> <<>>, changed |-> <<>>]]_vars

\* a result that holds /b twice, with different element counts, was
\* compared with itself
C24_Witness ==
  /\ lastCall.op = "diff" /\ lastCall.threw = <<>>
  /\ lastCall.args[1] = lastCall.args[2]
  /\ LET pages == results[lastCall.args[1]].pages
     IN \E j, k \in DOMAIN pages :
          /\ j < k
          /\ normalizeUrl(pages[j].url) = normalizeUrl(pages[k].url)
          /\ pages[j].elements # pages[k].elements

(***************************************************************************)
(* Properties of parallel_execute.                                         *)
(***************************************************************************)
\* execute has built its list of task results
Reported == parallel.pc \in {"cleaning", "returned"}

\* the task of taskIndex n, and the result reported at place n + 1
TaskAt(n) == parallel.tasks[n + 1]
ResultAt(n) == parallel.results[1][n + 1]

TaskIndexes == 0..(Len(parallel.tasks) - 1)

\* C25: for M submitted tasks execute reports M task results, the k-th of
\* them for taskIndex k - 1, whatever the order in which the sessions
\* were resolved and the tasks finished.
C25_OneResultPerTaskInOrder ==
  Reported
  => /\ Len(parallel.results[1]) = Len(parallel.tasks)
     /\ \A n \in TaskIndexes : ResultAt(n).taskIndex = n

\* execute returned, and the second task submitted was resolved before the
\* first
C25_Witness ==
  /\ parallel.pc = "returned"
  /\ Len(parallel.resolvedTasks) >= 2
  /\ parallel.resolvedTasks[1].taskIndex > parallel.resolvedTasks[2].taskIndex

\* the task of taskIndex n names a session, and no new one is asked for
NamesSession(n) == TaskAt(n).sessionId # <<>> /\ TaskAt(n).sessionId[1] # ""

\* the session of task n could not be resolved: the id it names was not in
\* the pool when execute was called, or the creation of its session failed
Unresolved(n) ==
  \/ NamesSession(n) /\ ~MapHas(parallel.registered, TaskAt(n).sessionId[1])
  \/ \E j \in DOMAIN parallel.needsNewSession :
       /\ parallel.needsNewSession[j].taskIndex = n
       /\ parallel.creations[j].pc = "rejected"

\* the closures run for task n
RunsOf(n) ==
  {k \in DOMAIN parallel.runs : parallel.resolvedTasks[k].taskIndex = n}

StatusAt(run, i) == run.stepResults[i].status

\* success entries, then at most one error, then skipped entries only
WellFormed(stepResults) ==
  \A a, b \in DOMAIN stepResults :
    a < b => /\ stepResults[a].status = "success" \/ stepResults[b].status = "skipped"
             /\ stepResults[a].status # "skipped" \/ stepResults[b].status = "skipped"

\* C27: the step results of a resolved task are as many as its steps once
\* its closure is through, and are success entries, then at most one error
\* entry, then skipped entries only; no step after an error is invoked; and
\* when a step of one task settles, the step results of no other task
\* change.
C27_ErrorSkipsRestOfTaskOnly ==
  /\ [](parallel.pc # "idle"
        => \A k \in DOMAIN parallel.runs :
             LET run == parallel.runs[k]
                 steps == parallel.resolvedTasks[k].steps
             IN /\ WellFormed(run.stepResults)
                /\ run.pc = "fulfilled" => Len(run.stepResults) = Len(steps)
                /\ \A i \in DOMAIN run.stepResults :
                     /\ run.stepResults[i].step = i
                     /\ run.stepResults[i].tool = steps[i]
                     /\ StatusAt(run, i) = "skipped" => ~\E x \in DOMAIN run.invoked : run.invoked[x] = i
                /\ \A x \in DOMAIN run.invoked :
                     \A i \in DOMAIN run.stepResults :
                       (i < run.invoked[x]) => StatusAt(run, i) = "success")
  /\ [][parallel.pc = "running"
        => \A j, k \in DOMAIN parallel.runs :
             (j # k /\ parallel'.runs[k].stepResults # parallel.runs[k].stepResults)
             => parallel'.runs[j].stepResults = parallel.runs[j].stepResults]_vars

\* execute returned; one task has a success, an error and a skipped step,
\* and another task completed
C27_Witness ==
  /\ parallel.pc = "returned"
  /\ \E j, k \in DOMAIN parallel.runs :
       /\ Len(parallel.runs[k].stepResults) = 3
       /\ StatusAt(parallel.runs[k], 1) = "success"
       /\ StatusAt(parallel.runs[k], 2) = "error"
       /\ StatusAt(parallel.runs[k], 3) = "skipped"
       /\ \A i \in DOMAIN parallel.runs[j].stepResults :
            StatusAt(parallel.runs[j], i) = "success"
       /\ Len(parallel.runs[j].stepResults) = 2

\* the steps 1 .. n in order
Upto(n) == [i \in 1..n |-> i]

\* C28: within a task the tool of a step is invoked only when the
\* invocations of all steps before it have finished, none of them in error:
\* at any moment the steps invoked are the steps 1 .. n for some n, all of
\* them but at most the last have finished, and those that finished before
\* the last was invoked were successes.  Tasks are not ordered among each
\* other.
C28_StepsOfATaskInSequence ==
  parallel.pc # "idle"
  => \A k \in DOMAIN parallel.runs :
       LET run == parallel.runs[k]
           n == Len(run.invoked)
       IN /\ run.invoked = Upto(n)
          /\ run.finished = Upto(n) \/ (n > 0 /\ run.finished = Upto(n - 1))
          /\ \A i \in 1..(n - 1) : StatusAt(run, i) = "success"
          /\ run.pc = "awaiting" <=> Len(run.finished) < n

\* two tasks are under way: the first awaits its second step while the
\* second still awaits its first
C28_Witness ==
  /\ parallel.pc = "running"
  /\ \E j, k \in DOMAIN parallel.runs :
       /\ j < k
       /\ parallel.runs[j].pc = "awaiting" /\ parallel.runs[j].invoked = <<1, 2>>
       /\ parallel.runs[k].pc = "awaiting" /\ parallel.runs[k].invoked = <<1>>

\* C29: a step that names parallel_execute or batch_execute is never
\* invoked; when the loop reaches it, it gets an error entry that says so
\* and the steps after it are skipped.
C29_NestedOrchestrationRejected ==
  parallel.pc # "idle"
  => \A k \in DOMAIN parallel.runs :
       LET run == parallel.runs[k]
           steps == parallel.resolvedTasks[k].steps
       IN \A i \in DOMAIN steps :
            steps[i] \in {"parallel_execute", "batch_execute"}
            => /\ \A x \in DOMAIN run.invoked : run.invoked[x] # i
               /\ i \in DOMAIN run.stepResults
                  => /\ StatusAt(run, i) \in {"error", "skipped"}
                     /\ StatusAt(run, i) = "error"
                        => /\ run.stepResults[i].content = RecursiveCall(steps[i])
                           /\ run.pc = "fulfilled"
                           /\ \A j \in DOMAIN steps :
                                j > i => StatusAt(run, j) = "skipped"
               /\ (run.pc = "fulfilled" /\ \A j \in 1..(i - 1) : StatusAt(run, j) = "success")
                  => StatusAt(run, i) = "error"

\* execute returned; a task's first step named batch_execute, and a task's
\* second step named parallel_execute after a first step that succeeded
C29_Witness ==
  /\ parallel.pc = "returned"
  /\ \E j, k \in DOMAIN parallel.runs :
       /\ parallel.resolvedTasks[j].steps[1] = "batch_execute"
       /\ parallel.runs[j].invoked = <<>>
       /\ StatusAt(parallel.runs[j], 1) = "error"
       /\ StatusAt(parallel.runs[j], 2) = "skipped"
       /\ parallel.resolvedTasks[k].steps[2] = "parallel_execute"
       /\ parallel.runs[k].invoked = <<1>>
       /\ StatusAt(parallel.runs[k], 2) = "error"

\* the ids of the sessions the call created
CreatedIds ==
  {parallel.creations[j].id :
     j \in {x \in DOMAIN parallel.creations : parallel.creations[x].pc = "fulfilled"}}

\* the session is in the pool as it was when execute was called, and no
\* quit was sent to its browser
StillRegistered(id) ==
  /\ MapHas(sessions, id)
  /\ sessions[id] = parallel.registered[id]
  /\ ~drivers[gsessions[sessions[id]].driver].quitCalled
  /\ drivers[gsessions[sessions[id]].driver].state = "live"

\* C30: once execute has returned, with destroyCreatedSessions set no
\* session the call created is in the pool, and without it every one of
\* them is; either way every session that was in the pool when execute was
\* called, those named by tasks included, is still in the pool and
\* unclosed.
C30_CleanupOnlyCreatedSessions ==
  parallel.pc = "returned"
  => /\ \A id \in CreatedIds :
          MapHas(sessions, id) <=> ~parallel.destroyCreatedSessions
     /\ \A id \in DOMAIN parallel.registered : StillRegistered(id)

\* execute returned with destroyCreatedSessions set; it had created a
\* session, and a task had run on a session named by its id
C30_Witness ==
  /\ parallel.pc = "returned"
  /\ parallel.destroyCreatedSessions
  /\ CreatedIds # {}
  /\ \E k \in DOMAIN parallel.runs :
       /\ parallel.resolvedTasks[k].sessionId \in DOMAIN parallel.registered
       /\ parallel.runs[k].invoked # <<>>

\* the sessions the call created, by their place in gsessions
CreatedSessions ==
  {s \in DOMAIN gsessions : gsessions[s].sessionId \in CreatedIds}

\* C31: no quit is sent to a session the call created, and none of them
\* leaves the pool, before every task of the call is through with its
\* steps; once cleanup has begun the task results no longer change; and
\* when execute returns after a cleanup, destroySession was called and
\* awaited for every created session and none of them is in the pool, also
\* when the quit of one of them failed.
C31_CleanupAfterAllTasks ==
  /\ [](parallel.pc # "idle"
        => /\ (\E s \in CreatedSessions :
                 \/ drivers[gsessions[s].driver].quitCalled
                 \/ ~MapHas(sessions, gsessions[s].sessionId))
              => /\ parallel.pc \in {"cleaning", "returned"}
                 /\ \A k \in DOMAIN parallel.runs : parallel.runs[k].pc = "fulfilled"
           /\ (parallel.pc = "returned" /\ Cleans(parallel))
              => /\ Len(parallel.destroys) = Cardinality(CreatedIds)
                 /\ \A k \in DOMAIN parallel.destroys :
                      /\ parallel.destroys[k].pc = "returned"
                      /\ parallel.destroys[k].id \in CreatedIds
                      /\ ~MapHas(sessions, parallel.destroys[k].id))
  /\ [][parallel.pc = "cleaning" => parallel'.results = parallel.results]_vars

\* execute returned after destroying two sessions it had created: the quit
\* of one failed and its browser lives on, the other browser is closed
C31_Witness ==
  /\ parallel.pc = "returned"
  /\ \E s, t \in CreatedSessions :
       /\ drivers[gsessions[s].driver].quitCalled
       /\ drivers[gsessions[s].driver].state = "live"
       /\ drivers[gsessions[t].driver].state = "closed"
  /\ \E n \in TaskIndexes : ResultAt(n).status = "completed"

\* C32: within one execute call no two tasks have a tool invocation under
\* way on the same session at the same time, also when two tasks name the
\* same sessionId.
C32_OneTaskPerSession ==
  parallel.pc = "running"
  => \A j, k \in DOMAIN parallel.runs :
       (j # k /\ parallel.runs[j].pc = "awaiting" /\ parallel.runs[k].pc = "awaiting")
       => parallel.resolvedTasks[j].sessionId # parallel.resolvedTasks[k].sessionId

(***************************************************************************)
(* Locator resolution: FIND_ELEMENT_SCRIPT and findElementByInfo.  A       *)
(* document is the sequence of its elements in document order; a text is   *)
(* a sequence of characters.                                               *)
(***************************************************************************)
NeedleLength == 30
MaxDistance == 50
TextTags == {"a", "button", "label", "span", "div", "h1", "h2", "h3", "h4",
             "h5", "h6", "p", "li", "td", "th"}

DomElement(tag, id, testid, name, ariaLabel, placeholder, type, text, href, x, visible) ==
  [tag |-> tag, id |-> id, testid |-> testid, name |-> name,
   ariaLabel |-> ariaLabel, placeholder |-> placeholder, type |-> type,
   text |-> text, href |-> href, x |-> x, y |-> 0, visible |-> visible]

\* what the discovery script remembers of an element
ElementInfoOf(ref, el) ==
  [ref |-> ref, tagName |-> el.tag, text |-> el.text, ariaLabel |-> el.ariaLabel,
   id |-> el.id, testid |-> "", name |-> el.name, type |-> el.type,
   href |-> el.href, placeholder |-> el.placeholder,
   boundingBox |-> <<[x |-> el.x, y |-> el.y]>>]

\* String.prototype.slice(0, n)
Slice(t, n) == SubSeq(t, 1, IF Len(t) < n THEN Len(t) ELSE n)

\* ct.indexOf(needle) !== -1
IndexOf(ct, needle) ==
  \E i \in 1..(Len(ct) + 1) :
    /\ i + Len(needle) - 1 <= Len(ct)
    /\ SubSeq(ct, i, i + Len(needle) - 1) = needle

isVisible(el) == el.visible

\* document.querySelector and getElementById: the first of the positions
\* (in document order) of the elements the selector matches
querySelector(matches) ==
  IF matches = {} THEN <<>>
  ELSE <<CHOOSE k \in matches : \A o \in matches : k <= o>>

\* "if (el && isVisible(el)) return el" over the first match only
FirstIfVisible(dom, matches) ==
  LET el == querySelector(matches)
  IN IF el # <<>> /\ isVisible(dom[el[1]]) THEN el ELSE <<>>

\* a loop over querySelectorAll that returns at the first candidate passing
FirstPassing(passing) ==
  IF passing = {} THEN <<>>
  ELSE <<CHOOSE k \in passing : \A o \in passing : k <= o>>

ById(dom, info) ==
  IF info.id # ""
  THEN FirstIfVisible(dom, {k \in DOMAIN dom : dom[k].id = info.id})
  ELSE <<>>

ByTestId(dom, info) ==
  IF info.testid # ""
  THEN FirstIfVisible(dom, {k \in DOMAIN dom : dom[k].testid = info.testid})
  ELSE <<>>

ByName(dom, info) ==
  IF info.name # ""
  THEN FirstIfVisible(dom, {k \in DOMAIN dom : dom[k].name = info.name})
  ELSE <<>>

ByAriaLabel(dom, info) ==
  IF info.ariaLabel # ""
  THEN FirstIfVisible(dom, {k \in DOMAIN dom : dom[k].ariaLabel = info.ariaLabel})
  ELSE <<>>

ByPlaceholder(dom, info) ==
  IF info.placeholder # ""
  THEN FirstIfVisible(dom, {k \in DOMAIN dom :
                              /\ dom[k].tag = info.tagName
                              /\ dom[k].placeholder = info.placeholder})
  ELSE <<>>

ByType(dom, info) ==
  IF info.type # ""
  THEN FirstPassing({k \in DOMAIN dom :
                       /\ dom[k].tag = info.tagName /\ dom[k].type = info.type
                       /\ isVisible(dom[k])
                       /\ info.text # <<>>
                          => IndexOf(dom[k].text, Slice(info.text, NeedleLength))})
  ELSE <<>>

ByText(dom, info) ==
  IF info.text # <<>> /\ info.tagName \in TextTags
  THEN FirstPassing({k \in DOMAIN dom :
                       /\ dom[k].tag = info.tagName
                       /\ isVisible(dom[k])
                       /\ IndexOf(dom[k].text, Slice(info.text, NeedleLength))})
  ELSE <<>>

ByHref(dom, info) ==
  IF info.href # "" /\ info.tagName = "a"
  THEN FirstPassing({k \in DOMAIN dom :
                       /\ dom[k].tag = "a" /\ dom[k].href # ""
                       /\ dom[k].href = info.href /\ isVisible(dom[k])})
  ELSE <<>>

\* the square of the distance between an element and the remembered box
DistSq(el, bbox) == (el.x - bbox.x) * (el.x - bbox.x) + (el.y - bbox.y) * (el.y - bbox.y)

ByPosition(dom, info) ==
  IF info.boundingBox # <<>>
  THEN LET bbox == info.boundingBox[1]
           near == {k \in DOMAIN dom :
                      /\ dom[k].tag = info.tagName
                      /\ isVisible(dom[k])
                      /\ DistSq(dom[k], bbox) < MaxDistance * MaxDistance}
       IN IF near = {} THEN <<>>
          ELSE <<CHOOSE k \in near :
                   \A o \in near :
                     \/ DistSq(dom[k], bbox) < DistSq(dom[o], bbox)
                     \/ DistSq(dom[k], bbox) = DistSq(dom[o], bbox) /\ k <= o>>
  ELSE <<>>

Strategies == 1..9

Strategy(s, dom, info) ==
  CASE s = 1 -> ById(dom, info)
    [] s = 2 -> ByTestId(dom, info)
    [] s = 3 -> ByName(dom, info)
    [] s = 4 -> ByAriaLabel(dom, info)
    [] s = 5 -> ByPlaceholder(dom, info)
    [] s = 6 -> ByType(dom, info)
    [] s = 7 -> ByText(dom, info)
    [] s = 8 -> ByHref(dom, info)
    [] s = 9 -> ByPosition(dom, info)

\* the script returns at the first strategy that finds an element, else null
FindElementScript(dom, info) ==
  LET found == {s \in Strategies : Strategy(s, dom, info) # <<>>}
  IN IF found = {} THEN <<>>
     ELSE Strategy(CHOOSE s \in found : \A o \in found : s <= o, dom, info)

CouldNotFindElement(info) == <<"Could not find element", info.ref, info.tagName>>

findElementByInfo(dom, info) ==
  LET el == FindElementScript(dom, info)
  IN IF el # <<>> THEN [threw |-> <<>>, value |-> el]
     ELSE [threw |-> <<CouldNotFindElement(info)>>, value |-> <<>>]

\* the elements a document may hold, each shown or hidden
DomShapes ==
  {DomElement("input", "", "", "q", "", "", "text", <<>>, "", 0, v) : v \in BOOLEAN}
  \cup {DomElement("input", "", "", "q", "", "", "search", <<>>, "", 200, v) : v \in BOOLEAN}
  \cup {DomElement("input", "", "", "", "", "find", "text", <<>>, "", 200, v) : v \in BOOLEAN}
  \cup {DomElement("button", "save", "", "", "", "", "submit", <<"s", "a">>, "", 0, v) : v \in BOOLEAN}
  \cup {DomElement("button", "", "", "", "", "", "submit", <<"s">>, "", 40, v) : v \in BOOLEAN}
  \cup {DomElement("a", "", "", "", "x", "", "", <<"s", "a">>, "/x", 0, v) : v \in BOOLEAN}
  \cup {DomElement("a", "", "", "", "", "", "", <<"a">>, "/x", 200, v) : v \in BOOLEAN}

MaxDomSize == 2

Doms == UNION {[1..n -> DomShapes] : n \in 1..MaxDomSize}

\* the descriptors discovery produced earlier, when every element was shown
ElementInfos == {ElementInfoOf("e1", el) : el \in {e \in DomShapes : e.visible}}

FindElementByInfo(dom, info) ==
  LET r == findElementByInfo(dom, info)
  IN /\ lastCall' = [op |-> "findElementByInfo", args |-> <<dom, info>>,
                     threw |-> r.threw, value |-> r.value]
     /\ UNCHANGED <<sessions, sessionCounter, gsessions, drivers, calls, ncalls,
                    issued, explorationCounter, results, tasks, returned, parallel,
                 activeSessionId>>

\* one resolution per behaviour: the script keeps nothing between two calls
NextLocate ==
  \E dom \in Doms, info \in ElementInfos :
    lastCall = NoCall /\ FindElementByInfo(dom, info)

SpecLocate == Init /\ [][NextLocate]_vars

\* the step was a locator resolution
Located == lastCall.op = "findElementByInfo"

\* the shown elements of the document that strategy s is looking for
VisibleMatches(s, dom, info) ==
  {k \in 1..Len(dom) :
     /\ isVisible(dom[k])
     /\ CASE s = 1 -> info.id # "" /\ dom[k].id = info.id
          [] s = 2 -> info.testid # "" /\ dom[k].testid = info.testid
          [] s = 3 -> info.name # "" /\ dom[k].name = info.name
          [] s = 4 -> info.ariaLabel # "" /\ dom[k].ariaLabel = info.ariaLabel
          [] s = 5 -> /\ info.placeholder # ""
                      /\ dom[k].tag = info.tagName
                      /\ dom[k].placeholder = info.placeholder
          [] s = 6 -> /\ info.type # ""
                      /\ dom[k].tag = info.tagName
                      /\ dom[k].type = info.type
                      /\ info.text # <<>>
                         => IndexOf(dom[k].text, Slice(info.text, NeedleLength))
          [] s = 7 -> /\ info.text # <<>>
                      /\ info.tagName \in TextTags
                      /\ dom[k].tag = info.tagName
                      /\ IndexOf(dom[k].text, Slice(info.text, NeedleLength))
          [] s = 8 -> /\ info.href # ""
                      /\ info.tagName = "a"
                      /\ dom[k].tag = "a"
                      /\ dom[k].href = info.href
          [] s = 9 -> /\ info.boundingBox # <<>>
                      /\ dom[k].tag = info.tagName
                      /\ DistSq(dom[k], info.boundingBox[1]) < MaxDistance * MaxDistance}

\* C33: locator resolution returns a shown element matched by the
\* highest-priority strategy that has a shown match in the document, in the
\* order id, test-id, name, aria-label, placeholder, tag+type, tag+text, href,
\* position; it raises an error exactly when no strategy has a shown match.
C33_HighestPriorityVisibleMatch ==
  Located =>
    LET dom == lastCall.args[1]
        info == lastCall.args[2]
        having == {s \in Strategies : VisibleMatches(s, dom, info) # {}}
    IN IF having = {} THEN lastCall.threw = <<CouldNotFindElement(info)>>
       ELSE /\ lastCall.threw = <<>>
            /\ lastCall.value # <<>>
            /\ lastCall.value[1] \in
                 VisibleMatches(CHOOSE s \in having : \A o \in having : s <= o, dom, info)

(***************************************************************************)
(* Termination of the crawl.                                               *)
(***************************************************************************)
\* the loop of discoverPages is being run for the first target
Crawling == tasks # <<>> /\ tasks[1].pc = "crawl"

\* the condition of the loop is false: the queue is empty or the budget of
\* pages is used up
LoopLeft ==
  /\ tasks # <<>>
  /\ \/ Len(tasks[1].crawl.queue) = 0
     \/ Len(tasks[1].crawl.pages) >= MaxPagesOf(tasks[1].target)

\* C34: every crawl that is begun leaves its loop, whatever the site (link
\* cycles, pages that link to themselves, pages that never load), when every
\* iteration's remote calls return: the queue empties or the budget of pages
\* is reached.
C34_CrawlTerminates == Crawling ~> LoopLeft

\* a crawl over the cycle /p -> /d -> /p, with /e linking to itself and /d
\* never loading, has left its loop after skipping queue entries
C34_Witness ==
  /\ Crawling /\ LoopLeft
  /\ tasks[1].target.url = UrlP
  /\ UrlD \in tasks[1].fails
  /\ Len(tasks[1].crawl.navigated) >= 3

(***************************************************************************)
(* Handles and the pool; overlapping destroys; generated ids.              *)
(***************************************************************************)
\* session s (by reference) is the value of an entry of the pool
InPool(s) == \E id \in DOMAIN sessions : sessions[id] = s

\* C35: the handle of every session createSession constructed is held by a
\* session registered in the pool, or close() was called on it: no handle
\* that nobody closed is unreachable from the pool.
C35_NoLiveHandleUnreachable ==
  \A s \in DOMAIN gsessions :
    InPool(s) \/ drivers[gsessions[s].driver].quitCalled

\* invocations of the pool's API in one behaviour when destroys overlap
MaxOverlapCalls == 3

NextOverlap == PoolNext(Callers, MaxOverlapCalls)

SpecOverlap == Init /\ [][NextOverlap]_vars

\* the call of caller c returned and reported that it removed session s:
\* destroySession returned true, or destroyAll counted the closure of s
ReportsRemoval(c, s) ==
  /\ calls[c].pc = "returned"
  /\ \/ calls[c].kind = "destroy" /\ calls[c].ret /\ calls[c].session = s
     \/ /\ calls[c].kind = "destroyAll"
        /\ \E id \in calls[c].settled : calls[c].toDestroy[id] = s

\* C36: for every session (an object registered once) at most one destroy
\* call reports having removed it, so the reports of overlapping destroy
\* calls never add up to more than the sessions removed.
C36_OneDestroyReportsRemoval ==
  \A s \in DOMAIN gsessions :
    Cardinality({c \in Callers : ReportsRemoval(c, s)}) <= 1

\* C37: a createSession call that was given no id (it generates one) never
\* fails as a duplicate: the generated id is not registered in the pool,
\* whatever explicit ids were registered before.
C37_GeneratedIdNeverDuplicate ==
  [][issued' # issued =>
       \A c \in Callers :
         calls'[c] # calls[c] =>
           /\ calls'[c].err # "duplicate"
           /\ ~MapHas(sessions, calls'[c].id)]_vars

\* C38: within one stored exploration result no two pages have the same
\* normalized URL, redirects included.
C38_PagesUniqueByNormalizedUrl ==
  \A id \in DOMAIN results :
    \A j, k \in DOMAIN results[id].pages :
      j # k => normalizeUrl(results[id].pages[j].url)
                 # normalizeUrl(results[id].pages[k].url)

(***************************************************************************)
(* One execute call of parallel_execute while another caller destroys the  *)
(* session s1 that a task names.                                           *)
(***************************************************************************)
\* the task lists: the task on s1 alone, and next to a task that needs a
\* new session (so that execute awaits between Phase 1 and Phase 2) or to a
\* task on grid-1
DestroyTaskLists ==
  {<<TaskC>>, <<TaskC, TaskA>>, <<TaskA, TaskC>>, <<TaskC, TaskD>>}

\* the createSession calls before the execute call, and one destroySession
CallsWithDestroy == PoolCallsBefore + 1

NextParallelDestroy ==
  \/ \E x \in ExplicitIds :
       parallel.pc = "idle" /\ CreateSessionStart(1, PoolCallsBefore, <<x>>)
  \/ BuildOk(1, FALSE, {})
  \/ BuildFail(1)
  \/ \E ts \in DestroyTaskLists :
       ~InFlight(calls[1]) /\ ExecuteStart(ts, FALSE)
  \/ parallel.pc \in {"creating", "running"}
       /\ DestroySessionStart(1, CallsWithDestroy, "s1")
  \/ \E ok \in BOOLEAN, gone \in BOOLEAN : DestroySessionFinish(1, ok, gone)
  \/ \E j \in 1..2, st \in BOOLEAN : ParallelBuildOk(j, st)
  \/ \E j \in 1..2 : ParallelBuildFail(j)
  \/ \E j \in 1..2 : ParallelStealthOk(j)
  \/ \E j \in 1..2 : ParallelStealthFail(j)
  \/ \E k \in 1..2, o \in Outcomes : ParallelStep(k, o)

SpecParallelDestroy == Init /\ [][NextParallelDestroy]_vars

\* resolvedTasks[k] names a session that Phase 1 found in the pool and that
\* was destroyed before Phase 2 began: the closure found no session
DestroyedSince(k) ==
  LET id == parallel.resolvedTasks[k].sessionId
  IN /\ MapHas(parallel.registered, id)
     /\ ~MapHas(sessions, id)
     /\ parallel.runs[k].session = 0

\* C39: when the session a task names was destroyed after Phase 1 found it
\* and before Phase 2 began, no step of that task is reported as success and
\* the task's result is failed; execute returns a result for every task.
C39_DestroyedSessionFailsTask ==
  /\ [](Reported => Len(parallel.results[1]) = Len(parallel.tasks))
  /\ [][\A k \in 1..2 :
          (/\ parallel.pc = "running"
           /\ k \in DOMAIN parallel.runs
           /\ parallel.runs[k].pc = "awaiting"
           /\ DestroyedSince(k)
           /\ parallel'.runs[k] # parallel.runs[k])
          => LET after == parallel'.runs[k].stepResults
                 step == after[Len(parallel.runs[k].stepResults) + 1]
             IN /\ step.status # "success"
                /\ ExecutionResult(parallel.resolvedTasks[k],
                                   parallel'.runs[k]).status = "failed"]_vars

(***************************************************************************)
(* The tools session_select, session_destroy and session_destroy_all on    *)
(* one Context and its pool.                                               *)
(***************************************************************************)
SessionNotFoundToSelect == "Session not found. Use session_list to see available sessions."

\* Context.selectSession(sessionId) after ensureGrid(); sel is <<>> for null
selectSession(active, m, sel) ==
  IF sel = <<>> THEN [threw |-> <<>>, active |-> <<>>]
  ELSE IF ~MapHas(m, sel[1])
  THEN [threw |-> <<SessionNotFoundToSelect>>, active |-> active]
  ELSE [threw |-> <<>>, active |-> sel]

\* the tool session_select
SessionSelect(sel) ==
  /\ activeSessionId' = selectSession(activeSessionId, sessions, sel).active
  /\ UNCHANGED <<sessions, sessionCounter, gsessions, drivers, calls, ncalls, issued>>
  /\ UNCHANGED <<exploreVars, parallel>>

\* the tool session_destroy, after its awaited pool.destroySession(sessionId):
\* if (destroyed) { if (context.activeSessionId === sessionId) selectSession(null) }
SessionDestroyFinish(c, ok, gone) ==
  /\ DestroySessionSettle(c, ok, gone)
  /\ activeSessionId' = IF CloseReturns(ok) /\ activeSessionId = <<calls[c].id>>
                        THEN selectSession(activeSessionId, sessions, <<>>).active
                        ELSE activeSessionId

\* the tool session_destroy_all up to its awaited pool.destroyAll(tags):
\* if (context.activeSessionId) selectSession(null)
SessionDestroyAllStart(c, limit, targ) ==
  /\ DestroyAllBegin(c, limit, targ)
  /\ activeSessionId' = IF activeSessionId # <<>>
                        THEN selectSession(activeSessionId, sessions, <<>>).active
                        ELSE activeSessionId

SelectArgs == {<<>>} \cup {<<x>> : x \in ExplicitIds}

\* sessions are created under explicit ids; the three tools are called by
\* concurrent callers
NextSelect ==
  \/ \E c \in Callers, x \in ExplicitIds : CreateSessionStart(c, MaxCalls, <<x>>)
  \/ \E c \in Callers, t \in TagChoices : BuildOk(c, FALSE, t)
  \/ \E c \in Callers : BuildFail(c)
  \/ \E sel \in SelectArgs : SessionSelect(sel)
  \/ \E c \in Callers, id \in ExplicitIds : DestroySessionStart(c, MaxCalls, id)
  \/ \E c \in Callers, ok \in BOOLEAN, gone \in BOOLEAN : SessionDestroyFinish(c, ok, gone)
  \/ \E c \in Callers, targ \in TagArgs : SessionDestroyAllStart(c, MaxCalls, targ)
  \/ \E c \in Callers, id \in ExplicitIds, ok \in BOOLEAN, gone \in BOOLEAN :
        DestroyAllSettle(c, id, ok, gone)

SpecSelect == Init /\ [][NextSelect]_vars

\* C40: whenever a session is selected, a session with the selected id is
\* registered in the pool.
C40_ActiveSessionRegistered ==
  activeSessionId # <<>> => MapHas(sessions, activeSessionId[1])
====
